---- MODULE Spec2Model ----
(***************************************************************************)
(* Model of the interaction core of the waimea window manager:            *)
(*   - the three per-screen stacking lists and the raise / lower /        *)
(*     layer-transfer operations (Screen.cc, Window.cc, Event.cc);        *)
(*   - the virtual viewport (Screen.cc);                                  *)
(*   - the modal move / resize / viewport-drag sessions with their        *)
(*     nested event loops (Window.cc, Screen.cc, Event.cc).               *)
(*                                                                         *)
(* Window.cc names the three lists wa_list_stacking,                      *)
(* wawindow_list_stacking_aot and wawindow_list_stacking_aab (entries are *)
(* WaWindow objects); Screen.cc names them stacking_list,                 *)
(* aot_stacking_list and aab_stacking_list (entries are frame handles).   *)
(* A window and its frame are in one-to-one correspondence, so the model  *)
(* keeps one family of three lists under the Screen.cc names and a window *)
(* is identified with its frame handle.                                   *)
(***************************************************************************)
EXTENDS Integers, Sequences, FiniteSets, TLC

(***************************************************************************)
(* Bounds of the model.                                                    *)
(***************************************************************************)
NumWin == 4         \* window handles 1..NumWin of the stacking specification

WinIds == 1..NumWin
NoWin == 0          \* (Window) 0: resolves to no managed window
MaxExtra == 1       \* entries the three lists may hold beyond one per window
MaxSteps == 2       \* stacking operations followed from an initial state

VARIABLES
    window_table,       \* handles of the managed windows (Waimea::window_table)
    flags,              \* per window: alwaysontop, alwaysatbottom, forcedatbottom, sticky
    transients,         \* per window: list of transient handles
    transient_for,      \* per window: handle of its owner, NoWin when it has none
    aot_stacking_list,  \* always-on-top layer, front first
    stacking_list,      \* normal layer, front first
    aab_stacking_list,  \* always-at-bottom layer, front first
    edges,              \* screen edges whose action list is not empty
    xstack,             \* stacking order of the display, top first
    attrib,             \* per window: x, y, width, height
    dontsend,           \* per window: suppress outgoing geometry notification
    width, height,      \* physical screen size
    virtual_x,          \* config.virtual_x: virtual width in screens
    virtual_y,          \* config.virtual_y: virtual height in screens
    v_x, v_y,           \* viewport offset
    v_xmax, v_ymax,     \* largest viewport offset
    trace,              \* the operation performed by the last step
    steps,              \* number of steps the behaviour may still take
    move_resize,        \* EventHandler::move_resize, the session slot
    callstack,          \* the running session functions, innermost last
    pend,               \* bindings the dispatcher's EvAct has still to fire
    bev,                \* the event the dispatcher's EvAct is firing them for
    xqueue,             \* the event queue of the display connection, head first
    pointer,            \* root x coordinate of the pointer
    ptr_grab,           \* the window manager holds the pointer grab
    kbd_grab,           \* the window manager holds the keyboard grab
    srv_grab,           \* the window manager holds the server grab
    outlines,           \* outline window sets that exist on the display
    o_valid,            \* o_west .. o_south of the target name existing windows
    deleted,            \* WaWindow::deleted of the target
    shaded,             \* flags.shaded of the target
    restore_shade,      \* WaWindow::restore_shade of the target
    arrived,            \* serials of the map-requests deferred by a window session
    handled,            \* serials of the map-requests EvMapRequest has processed
    nmaps,              \* map-requests sent so far
    pc,                 \* "fetch": the innermost loop waits for an event;
                        \* "ret": a session function has just returned
    arg,                \* the arguments a function under study is called with
    res,                \* what it has returned, NoRes before the call
    last_button,        \* EventHandler::last_button
    last_click_win,     \* EventHandler::last_click_win
    last_click,         \* EventHandler::last_click, a timeval
    now,                \* the time of day, a timeval
    flags_max,          \* flags.max of the target
    restore_max,        \* WaWindow::restore_max of the target
    current_desktop,    \* current_desktop->number
    desktop_mask,       \* per window: the desktops it is a member of
    hidden,             \* per window: the frame is unmapped for its desktops
    mapped,             \* per window: MapWindow has run
    frame_up,           \* per window: the frame is mapped on the display
    wawindow_list,      \* WaScreen::wawindow_list: the windows as records
    strut_list,         \* WaScreen::strut_list
    desk_workarea       \* current_desktop->workarea

stackvars == <<window_table, flags, transients, transient_for, aot_stacking_list,
               stacking_list, aab_stacking_list, edges, xstack>>

viewvars == <<attrib, dontsend, width, height, virtual_x, virtual_y,
              v_x, v_y, v_xmax, v_ymax>>

modalvars == <<move_resize, callstack, pend, bev, xqueue, pointer, ptr_grab,
               kbd_grab, srv_grab, outlines, o_valid, deleted, shaded,
               restore_shade, arrived, handled, nmaps, pc>>

clickvars == <<last_button, last_click_win, last_click, now>>

maxvars == <<flags_max, restore_max>>

deskvars == <<current_desktop, desktop_mask, hidden, mapped, frame_up>>

workvars == <<wawindow_list, strut_list, desk_workarea>>

auxvars == <<arg, res, clickvars, maxvars, deskvars, workvars>>

sessvars == <<modalvars, auxvars>>

vars == <<stackvars, viewvars, trace, steps, sessvars>>

(***************************************************************************)
(* std::list primitives.                                                   *)
(***************************************************************************)
\* list::remove(x): erases every element equal to x
ListRemove(l, x) == SelectSeq(l, LAMBDA e : e # x)

\* list::push_front(x)
PushFront(l, x) == <<x>> \o l

\* list::push_back(x)
PushBack(l, x) == Append(l, x)

\* position of the first element equal to x, 0 when there is none
RECURSIVE FirstPos(_, _, _)
FirstPos(l, x, i) ==
    IF i > Len(l) THEN 0
    ELSE IF l[i] = x THEN i ELSE FirstPos(l, x, i + 1)

\* list::erase(it) for the iterator at position i
EraseAt(l, i) == [k \in 1..(Len(l) - 1) |-> IF k < i THEN l[k] ELSE l[k + 1]]

InList(l, x) == \E i \in 1..Len(l) : l[i] = x

\* number of occurrences of x in l
Occ(l, x) == Cardinality({i \in 1..Len(l) : l[i] = x})

\* F applied to the value of x
Let(x, F(_)) == CHOOSE v \in {F(y) : y \in {x}} : TRUE

\* Waimea::FindWin(id, WindowType): the handle resolves to a managed window
FindWin(wt, id) == id \in wt


(***************************************************************************)
(* The physical stacking order kept by the display, top first.  Screen    *)
(* edges are windows of their own; only those with a non-empty action     *)
(* list take part in a restack (Screen.cc:591-594).                       *)
(***************************************************************************)
WestId == NumWin + 1
EastId == NumWin + 2
NorthId == NumWin + 3
SouthId == NumWin + 4
EdgeOrder == <<WestId, EastId, NorthId, SouthId>>
RootId == NumWin + 5                     \* wascreen->id
StaleA == NumWin + 6                     \* handles of windows no longer managed
StaleB == NumWin + 7

\* XRaiseWindow(display, h): h becomes the topmost window; an unknown handle
\* raises a BadWindow error and changes nothing
XRaiseWindow(xs, h) == IF InList(xs, h) THEN <<h>> \o ListRemove(xs, h) ELSE xs

\* one step of XRestackWindows: a is configured Below its sibling b; the
\* request fails (BadMatch / BadWindow) when a = b or a handle is unknown
PlaceBelow(xs, a, b) ==
    IF a = b \/ ~InList(xs, a) \/ ~InList(xs, b) THEN xs
    ELSE LET r == ListRemove(xs, a)
             p == FirstPos(r, b, 1)
         IN  SubSeq(r, 1, p) \o <<a>> \o SubSeq(r, p + 1, Len(r))

\* XRestackWindows(display, stack, n): stack[k] is placed below stack[k-1]
RECURSIVE XRestackWindows(_, _, _)
XRestackWindows(xs, stack, k) ==
    IF k > Len(stack) THEN xs
    ELSE XRestackWindows(PlaceBelow(xs, stack[k], stack[k - 1]), stack, k + 1)

\* an array without the edge windows: the frames are put in front of them
RestackArrayNoEdges(ed, aot, norm, aab, win) ==
    LET all == aot \o norm \o aab
        p == FirstPos(all, win, 1)
    IN  IF p = 0 THEN all ELSE SubSeq(all, 1, p)

\* the array RestackWindows(win) builds: active edges, then the three lists
\* front to back, cut after the first entry equal to win
RestackArray(ed, aot, norm, aab, win) ==
    LET all == aot \o norm \o aab
        p == FirstPos(all, win, 1)
    IN  SelectSeq(EdgeOrder, LAMBDA e : e \in ed)
        \o (IF p = 0 THEN all ELSE SubSeq(all, 1, p))

\* WaScreen::RestackWindows(win): the order the display ends in.  With an
\* empty array stack[0] is read uninitialised; g is the handle XRaiseWindow
\* then receives (any window of the display, or one that does not exist).
RestackWindows(xs, ed, aot, norm, aab, win, g) ==
    LET stack == RestackArray(ed, aot, norm, aab, win)
    IN  IF stack = <<>>
        THEN XRaiseWindow(xs, g)
        ELSE XRestackWindows(XRaiseWindow(xs, stack[1]), stack, 2)

(***************************************************************************)
(* Stacking operations.                                                    *)
(***************************************************************************)
CurLayers == [aot |-> aot_stacking_list, norm |-> stacking_list,
              aab |-> aab_stacking_list]

\* the three remove() calls followed by push_front on the list `to`
\* (Screen.cc:440-443, 472-475, 505-508)
MoveToFrontOf(ls, h, to) ==
    LET r == [aot |-> ListRemove(ls.aot, h), norm |-> ListRemove(ls.norm, h),
              aab |-> ListRemove(ls.aab, h)]
    IN  [r EXCEPT ![to] = PushFront(r[to], h)]

\* the transient loop of RaiseWindow, from iterator position i: a live
\* transient goes to the front of the list `to`; a stale one is erased, the
\* iterator restarts at begin() and the for-increment then steps past the
\* first remaining entry
RECURSIVE RaiseTransients(_, _, _, _, _)
RaiseTransients(tl, i, ls, to, wt) ==
    IF i > Len(tl) THEN [tl |-> tl, ls |-> ls]
    ELSE IF FindWin(wt, tl[i])
         THEN RaiseTransients(tl, i + 1, MoveToFrontOf(ls, tl[i], to), to, wt)
         ELSE RaiseTransients(EraseAt(tl, i), 2, ls, to, wt)

\* the list RaiseWindow / LowerWindow finds win in (aot, then normal, then aab)
LayerOf(ls, win) ==
    IF InList(ls.aot, win) THEN "aot"
    ELSE IF InList(ls.norm, win) THEN "norm"
    ELSE IF InList(ls.aab, win) THEN "aab"
    ELSE "none"

\* WaScreen::RaiseWindow(win) on the lists and the owner's transient list.
\* deref is the value read through the erased iterator in FindWin(*it, ..)
RaiseWindowLists(ls, trs, wt, win, deref) ==
    LET to == LayerOf(ls, win)
    IN  IF to = "none" THEN [trs |-> trs, ls |-> ls]
        ELSE LET l1 == [ls EXCEPT ![to] =
                           PushFront(EraseAt(ls[to], FirstPos(ls[to], win, 1)), win)]
             IN  IF FindWin(wt, deref)
                 THEN LET r == RaiseTransients(trs[deref], 1, l1, to, wt)
                      IN  [trs |-> [trs EXCEPT ![deref] = r.tl], ls |-> r.ls]
                 ELSE [trs |-> trs, ls |-> l1]

\* WaScreen::LowerWindow(win) on the lists
LowerWindowLists(ls, win) ==
    LET to == LayerOf(ls, win)
    IN  IF to = "none" THEN ls
        ELSE [ls EXCEPT ![to] =
                 PushBack(EraseAt(ls[to], FirstPos(ls[to], win, 1)), win)]

\* the transient loop of WaWindow::Raise: the same iteration, but a live
\* transient is only re-queued at the front of the normal list
RECURSIVE RaiseTransientsWin(_, _, _, _)
RaiseTransientsWin(tl, i, norm, wt) ==
    IF i > Len(tl) THEN [tl |-> tl, norm |-> norm]
    ELSE IF FindWin(wt, tl[i])
         THEN RaiseTransientsWin(tl, i + 1,
                                 PushFront(ListRemove(norm, tl[i]), tl[i]), wt)
         ELSE RaiseTransientsWin(EraseAt(tl, i), 2, norm, wt)

\* list part of WaWindow::Raise for a window that is neither forced to the
\* bottom nor flagged always-on-top / always-at-bottom
WinRaiseLists(ls, trs, wt, w) ==
    LET r == RaiseTransientsWin(trs[w], 1,
                                PushFront(ListRemove(ls.norm, w), w), wt)
    IN  [trs |-> [trs EXCEPT ![w] = r.tl], ls |-> [ls EXCEPT !.norm = r.norm]]

\* list part of WaWindow::Lower
WinLowerLists(ls, w) == [ls EXCEPT !.norm = PushBack(ListRemove(ls.norm, w), w)]

\* list part of the four layer-transfer operations
AlwaysontopOnLists(ls, w) ==
    [aot |-> PushBack(ls.aot, w), norm |-> ListRemove(ls.norm, w),
     aab |-> ListRemove(ls.aab, w)]

AlwaysatbottomOnLists(ls, w) ==
    [aot |-> ListRemove(ls.aot, w), norm |-> ListRemove(ls.norm, w),
     aab |-> PushBack(ls.aab, w)]

AlwaysontopOffLists(ls, w) ==
    [ls EXCEPT !.aot = ListRemove(ls.aot, w), !.norm = PushFront(ls.norm, w)]

AlwaysatbottomOffLists(ls, w) ==
    [ls EXCEPT !.aab = ListRemove(ls.aab, w), !.norm = PushBack(ls.norm, w)]

TotalLen(ls) == Len(ls.aot) + Len(ls.norm) + Len(ls.aab)

\* the model stops short of letting the lists grow without bound
Room(ls) == TotalLen(ls) <= NumWin + MaxExtra

SetLayers(ls) ==
    /\ aot_stacking_list' = ls.aot
    /\ stacking_list' = ls.norm
    /\ aab_stacking_list' = ls.aab

\* the restack WaWindow's operations request through WaScreen::WaRaiseWindow /
\* WaLowerWindow: the full order is recomputed and resent, restack(none)
WaRestack(xs, ed, ls, g) ==
    RestackWindows(xs, ed, ls.aot, ls.norm, ls.aab, NoWin, g)


\* one more step is followed
Step == steps > 0 /\ steps' = steps - 1

(***************************************************************************)
(* Actions of the stacking manager.  g is the handle an uninitialised     *)
(* stack[0] yields when the restack array is empty.                       *)
(***************************************************************************)
Garbage(ls, win) ==
    IF RestackArray(edges, ls.aot, ls.norm, ls.aab, win) = <<>>
    THEN {NoWin} \cup {xstack[i] : i \in 1..Len(xstack)}
    ELSE {NoWin}

\* WaWindow::Raise, a bound action
Raise(w) ==
    /\ w \in window_table
    /\ trace' = [op |-> "Raise"]
    /\ Step
    /\ IF flags[w].forcedatbottom \/ flags[w].alwaysontop \/ flags[w].alwaysatbottom
       THEN UNCHANGED stackvars
       ELSE LET r == WinRaiseLists(CurLayers, transients, window_table, w)
            IN  /\ Room(r.ls)
                /\ SetLayers(r.ls)
                /\ transients' = r.trs
                /\ \E g \in Garbage(r.ls, NoWin) : xstack' = WaRestack(xstack, edges, r.ls, g)
                /\ UNCHANGED <<window_table, flags, transient_for, edges>>
    /\ UNCHANGED <<viewvars, sessvars>>

\* WaWindow::Lower, a bound action
Lower(w) ==
    /\ w \in window_table
    /\ trace' = [op |-> "Lower"]
    /\ Step
    /\ IF flags[w].forcedatbottom \/ flags[w].alwaysontop \/ flags[w].alwaysatbottom
       THEN UNCHANGED stackvars
       ELSE LET ls == WinLowerLists(CurLayers, w)
            IN  /\ Room(ls)
                /\ SetLayers(ls)
                /\ \E g \in Garbage(ls, NoWin) : xstack' = WaRestack(xstack, edges, ls, g)
                /\ UNCHANGED <<window_table, flags, transients, transient_for, edges>>
    /\ UNCHANGED <<viewvars, sessvars>>

\* the common shape of the four layer-transfer operations
LayerTransfer(w, ls, aot, aab) ==
    /\ Room(ls)
    /\ SetLayers(ls)
    /\ flags' = [flags EXCEPT ![w].alwaysontop = aot, ![w].alwaysatbottom = aab]
    /\ \E g \in Garbage(ls, NoWin) : xstack' = WaRestack(xstack, edges, ls, g)
    /\ UNCHANGED <<window_table, transients, transient_for, edges>>

\* WaWindow::AlwaysontopOn
DoAlwaysontopOn(w) ==
    IF flags[w].forcedatbottom THEN UNCHANGED stackvars
    ELSE LayerTransfer(w, AlwaysontopOnLists(CurLayers, w), TRUE, FALSE)

\* WaWindow::AlwaysatbottomOn
DoAlwaysatbottomOn(w) ==
    IF flags[w].forcedatbottom THEN UNCHANGED stackvars
    ELSE LayerTransfer(w, AlwaysatbottomOnLists(CurLayers, w), FALSE, TRUE)

\* WaWindow::AlwaysontopOff
DoAlwaysontopOff(w) ==
    IF flags[w].forcedatbottom THEN UNCHANGED stackvars
    ELSE LayerTransfer(w, AlwaysontopOffLists(CurLayers, w), FALSE,
                       flags[w].alwaysatbottom)

\* WaWindow::AlwaysatbottomOff
DoAlwaysatbottomOff(w) ==
    IF flags[w].forcedatbottom THEN UNCHANGED stackvars
    ELSE LayerTransfer(w, AlwaysatbottomOffLists(CurLayers, w),
                       flags[w].alwaysontop, FALSE)

AlwaysontopOn(w) ==
    /\ w \in window_table
    /\ trace' = [op |-> "AlwaysontopOn"]
    /\ Step
    /\ DoAlwaysontopOn(w)
    /\ UNCHANGED <<viewvars, sessvars>>

AlwaysatbottomOn(w) ==
    /\ w \in window_table
    /\ trace' = [op |-> "AlwaysatbottomOn"]
    /\ Step
    /\ DoAlwaysatbottomOn(w)
    /\ UNCHANGED <<viewvars, sessvars>>

AlwaysontopOff(w) ==
    /\ w \in window_table
    /\ trace' = [op |-> "AlwaysontopOff"]
    /\ Step
    /\ DoAlwaysontopOff(w)
    /\ UNCHANGED <<viewvars, sessvars>>

AlwaysatbottomOff(w) ==
    /\ w \in window_table
    /\ trace' = [op |-> "AlwaysatbottomOff"]
    /\ Step
    /\ DoAlwaysatbottomOff(w)
    /\ UNCHANGED <<viewvars, sessvars>>

\* WaWindow::AlwaysontopToggle
AlwaysontopToggle(w) ==
    /\ w \in window_table
    /\ trace' = [op |-> "AlwaysontopToggle"]
    /\ Step
    /\ IF flags[w].alwaysontop THEN DoAlwaysontopOff(w) ELSE DoAlwaysontopOn(w)
    /\ UNCHANGED <<viewvars, sessvars>>

\* WaWindow::AlwaysatbottomToggle
AlwaysatbottomToggle(w) ==
    /\ w \in window_table
    /\ trace' = [op |-> "AlwaysatbottomToggle"]
    /\ Step
    /\ IF flags[w].alwaysatbottom THEN DoAlwaysatbottomOff(w)
       ELSE DoAlwaysatbottomOn(w)
    /\ UNCHANGED <<viewvars, sessvars>>

\* EventHandler::EvConfigureRequest with value_mask = CWStackMode and stack
\* mode Above: WaScreen::RaiseWindow(frame)
RaiseWindow(w) ==
    /\ w \in window_table
    /\ trace' = [op |-> "RaiseWindow"]
    /\ Step
    /\ \E deref \in {w, NoWin} :
         LET r == RaiseWindowLists(CurLayers, transients, window_table, w, deref)
         IN  /\ SetLayers(r.ls)
             /\ transients' = r.trs
             /\ \E g \in Garbage(r.ls, w) :
                  xstack' = RestackWindows(xstack, edges, r.ls.aot, r.ls.norm,
                                           r.ls.aab, w, g)
    /\ UNCHANGED <<window_table, flags, transient_for, edges>>
    /\ UNCHANGED <<viewvars, sessvars>>

\* EvConfigureRequest with stack mode Below: WaScreen::LowerWindow(frame)
LowerWindow(w) ==
    /\ w \in window_table
    /\ trace' = [op |-> "LowerWindow"]
    /\ Step
    /\ LET ls == LowerWindowLists(CurLayers, w)
       IN  /\ SetLayers(ls)
           /\ \E g \in Garbage(ls, w) :
                xstack' = RestackWindows(xstack, edges, ls.aot, ls.norm, ls.aab, w, g)
    /\ UNCHANGED <<window_table, flags, transients, transient_for, edges>>
    /\ UNCHANGED <<viewvars, sessvars>>

\* EvConfigureRequest with stack mode TopIf, BottomIf or Opposite
ConfigureStackMode(w, detail) ==
    /\ w \in window_table
    /\ trace' = [op |-> detail]
    /\ Step
    /\ CASE detail = "TopIf" -> DoAlwaysontopOn(w)
         [] detail = "BottomIf" -> DoAlwaysatbottomOn(w)
         [] detail = "Opposite" ->
              IF flags[w].alwaysontop THEN DoAlwaysatbottomOn(w)
              ELSE IF flags[w].alwaysatbottom THEN DoAlwaysontopOn(w)
              ELSE UNCHANGED stackvars
    /\ UNCHANGED <<viewvars, sessvars>>

\* EventHandler::EvUnmapDestroy for a managed window: WaWindow::~WaWindow
UnmapDestroy(w) ==
    /\ w \in window_table
    /\ trace' = [op |-> "UnmapDestroy"]
    /\ Step
    /\ window_table' = window_table \ {w}
    /\ transients' =
         [o \in WinIds |->
            IF transient_for[w] # NoWin
               /\ (transient_for[w] = o \/ transient_for[w] = RootId)
               /\ o \in window_table \ {w}
            THEN ListRemove(transients[o], w) ELSE transients[o]]
    /\ stacking_list' = ListRemove(stacking_list, w)
    /\ aot_stacking_list' = IF flags[w].alwaysontop
                            THEN ListRemove(aot_stacking_list, w)
                            ELSE aot_stacking_list
    /\ aab_stacking_list' = IF ~flags[w].forcedatbottom /\ flags[w].alwaysatbottom
                            THEN ListRemove(aab_stacking_list, w)
                            ELSE aab_stacking_list
    /\ xstack' = ListRemove(xstack, w)
    /\ UNCHANGED <<flags, transient_for, edges>>
    /\ UNCHANGED <<viewvars, sessvars>>

(***************************************************************************)
(* Viewport manager (Screen.cc).                                           *)
(***************************************************************************)
MaxVirtual == 2     \* largest configured virtual size, in screens
MaxReq == 3         \* largest coordinate a viewport request names
ScreenSizes == {1, 2}   \* physical widths / heights, in pixels

\* the clamp of MoveViewportTo (Screen.cc:1114-1117)
Clamp(x, max) == IF x > max THEN max ELSE IF x < 0 THEN 0 ELSE x

\* x_move / y_move of MoveViewportTo: the negated delta to the clamped offset
ViewportShiftUnclamped(req, v, max) == -(req - v)
\* the delta cut down to whole screens
ViewportShiftWholeScreens(req, v, max) ==
    -(((Clamp(req, max) - v) \div width) * width)
ViewportShift(req, v, max) == -(Clamp(req, max) - v)

\* the window intersects the physical screen
OnScreen(a, x, y) ==
    /\ x + a.width > 0 /\ x < width
    /\ y + a.height > 0 /\ y < height

\* WaScreen::MoveViewportTo(x, y)
DoMoveViewportTo(x, y) ==
    LET x_move == ViewportShift(x, v_x, v_xmax)
        y_move == ViewportShift(y, v_y, v_ymax)
        moved(w) == w \in window_table /\ ~flags[w].sticky
    IN  /\ v_x' = Clamp(x, v_xmax)
        /\ v_y' = Clamp(y, v_ymax)
        /\ attrib' = [w \in WinIds |->
                        IF moved(w)
                        THEN [attrib[w] EXCEPT !.x = @ + x_move, !.y = @ + y_move]
                        ELSE attrib[w]]
        /\ dontsend' = [w \in WinIds |->
                          IF moved(w)
                             /\ ~OnScreen(attrib[w], attrib[w].x + x_move,
                                          attrib[w].y + y_move)
                             /\ ~OnScreen(attrib[w], attrib[w].x, attrib[w].y)
                          THEN FALSE ELSE dontsend[w]]
        /\ UNCHANGED <<width, height, virtual_x, virtual_y, v_xmax, v_ymax>>

Reqs == (0 - 1)..MaxReq

MoveViewportTo(x, y) ==
    /\ trace' = [op |-> "MoveViewportTo", x |-> x, y |-> y]
    /\ UNCHANGED steps
    /\ DoMoveViewportTo(x, y)
    /\ UNCHANGED <<stackvars, sessvars>>

\* WaScreen::MoveViewport(direction): one screen in the given direction
MoveViewport(direction) ==
    /\ trace' = [op |-> "MoveViewport"]
    /\ UNCHANGED steps
    /\ CASE direction = "West" ->
              IF v_x > 0
              THEN DoMoveViewportTo(v_x - (IF v_x - width < 0 THEN v_x ELSE width), v_y)
              ELSE UNCHANGED viewvars
         [] direction = "East" ->
              IF v_x < v_xmax
              THEN DoMoveViewportTo(
                       v_x + (IF v_x + width > v_xmax THEN v_xmax - v_x ELSE width), v_y)
              ELSE UNCHANGED viewvars
         [] direction = "North" ->
              IF v_y > 0
              THEN DoMoveViewportTo(v_x, v_y - (IF v_y - height < 0 THEN v_y ELSE height))
              ELSE UNCHANGED viewvars
         [] direction = "South" ->
              IF v_y < v_ymax
              THEN DoMoveViewportTo(
                       v_x, v_y + (IF v_y + height > v_ymax THEN v_ymax - v_y ELSE height))
              ELSE UNCHANGED viewvars
    /\ UNCHANGED <<stackvars, sessvars>>

\* WaScreen::ViewportFixedMove: the parameter parses to (x, y); a negative
\* value counts from the far end of the virtual area
ViewportFixedMove(x, y) ==
    /\ trace' = [op |-> "ViewportFixedMove"]
    /\ UNCHANGED steps
    /\ DoMoveViewportTo(IF x < 0 THEN v_xmax + x ELSE x,
                        IF y < 0 THEN v_ymax + y ELSE y)
    /\ UNCHANGED <<stackvars, sessvars>>

\* WaScreen::ViewportRelativeMove: the parameter parses to an offset (x, y)
ViewportRelativeMove(x, y) ==
    /\ trace' = [op |-> "ViewportRelativeMove"]
    /\ UNCHANGED steps
    /\ DoMoveViewportTo(v_x + x, v_y + y)
    /\ UNCHANGED <<stackvars, sessvars>>

\* the RandR branch of EventHandler::HandleEvent followed by
\* WaScreen::RRUpdate: the screen takes the size (w, h) of the event
RRUpdate(w, h) ==
    /\ trace' = [op |-> "RRUpdate"]
    /\ UNCHANGED steps
    /\ width' = w
    /\ height' = h
    /\ v_xmax' = (virtual_x - 1) * w
    /\ v_ymax' = (virtual_y - 1) * h
    /\ UNCHANGED <<attrib, dontsend, virtual_x, virtual_y, v_x, v_y>>
    /\ UNCHANGED <<stackvars, sessvars>>

(***************************************************************************)
(* Interaction sessions (Window.cc, Screen.cc, Event.cc).  The bound       *)
(* actions act on one managed window, Target; the pointer moves along the  *)
(* x axis only, its y coordinate stays 0.                                  *)
(***************************************************************************)
MaxPtr == 1         \* the pointer's root x lies in 0..MaxPtr
MaxMaps == 2        \* map-requests sent in one behaviour
MaxDepth == 2       \* session functions running at once
MaxOutlines == 2    \* outline window sets existing at once
MaxEvents == 4      \* events taken and returns resumed in one behaviour
MaxReplay == 9      \* the same, for the deferral and replay of map-requests
MaxCoord == 4       \* |attrib.x| of the target stays within this

Target == 1         \* the window the bound actions are delivered to
border_w == 1       \* flags.border * wstyle.border_width
title_w == 1        \* flags.title * wstyle.title_height
handle_w == 1       \* flags.handle * wstyle.handle_width

\* WM_NORMAL_HINTS of the target (NetHandler::GetWMNormalHints), scaled down
size == [min_width |-> 1, max_width |-> 2, width_inc |-> 1, base_width |-> 1,
         min_height |-> 1, max_height |-> 2, height_inc |-> 1, base_height |-> 1]

WinActs == {"Move", "MoveOpaque", "Resize", "ResizeOpaque"}
Acts == WinActs \cup {"ViewportMove", "EndMoveResize"}

\* the action lists an event can match: one binding, or two of which the
\* first ends a session or the second starts a viewport drag after a move
BindLists ==
    {<<>>} \cup {<<a>> : a \in Acts}
      \cup {<<"EndMoveResize", a>> : a \in {"Move", "ViewportMove"}}
      \cup {<<"Move", "ViewportMove">>}

\* the action lists a map-request can match
MapBindLists == {<<>>} \cup {<<a>> : a \in WinActs}

NoEv == [type |-> "None", n |-> 0, x |-> 0, acts |-> <<>>]
MotionEv(x) == [type |-> "Motion", n |-> 0, x |-> x, acts |-> <<>>]
ButtonEv(a) == [type |-> "Button", n |-> 0, x |-> 0, acts |-> a]
MapEv(n, a) == [type |-> "MapRequest", n |-> n, x |-> 0, acts |-> a]
GoneEv(t, w) == [type |-> t, n |-> w, x |-> 0, acts |-> <<>>]
\* ClientMessage of type WM_CHANGE_STATE asking for WithdrawnState, for
\* window w
WithdrawEv(w) == [type |-> "ClientMessage", n |-> w, x |-> 0, acts |-> <<>>]
\* EnterNotify / LeaveNotify on a screen edge whose action list matches with a
CrossingEv(a) == [type |-> "Crossing", n |-> 0, x |-> 0, acts |-> a]

IsGone(e, w) == e.type \in {"DestroyNotify", "UnmapNotify"} /\ e.n = w

\* what one step has done, kept for the properties
NoLog == [refused |-> FALSE, gfail |-> FALSE, ended |-> 0, over |-> FALSE,
          stray |-> FALSE]

\* the state the session functions work on
Cur ==
    [slot |-> move_resize, cs |-> callstack, pend |-> pend, bev |-> bev,
     q |-> xqueue, ptr |-> ptr_grab, kbd |-> kbd_grab, srv |-> srv_grab,
     outl |-> outlines, oval |-> o_valid, del |-> deleted, sh |-> shaded,
     rs |-> restore_shade, at |-> attrib, ds |-> dontsend, wt |-> window_table,
     vx |-> v_x, arrived |-> arrived, handled |-> handled, pc |-> pc,
     log |-> NoLog]

\* the local variables of a running session function
Frame(kind, started, px, nx, w, h) ==
    [kind |-> kind, started |-> started, maps |-> <<>>, pend |-> <<>>,
     ev |-> NoEv, px |-> px, nx |-> nx,
     width |-> w, height |-> h, n_w |-> w, n_h |-> h]

Top(m) == m.cs[Len(m.cs)]
SetTop(m, f) == [m EXCEPT !.cs[Len(m.cs)] = f]
Pop(m) == [m EXCEPT !.cs = SubSeq(@, 1, Len(@) - 1), !.log.ended = @ + 1]

\* the bindings the calling EvAct has left are kept while the callee runs
SetPend(m, rest) ==
    IF m.cs = <<>> THEN [m EXCEPT !.pend = rest]
    ELSE [m EXCEPT !.cs[Len(m.cs)].pend = rest]

Push(m, f, rest) ==
    LET m1 == SetPend(m, rest)
    IN  IF Len(m1.cs) >= MaxDepth THEN [m1 EXCEPT !.log.over = TRUE]
        ELSE [m1 EXCEPT !.cs = Append(@, f)]

\* WaWindow::CreateOutline / DestroyOutline.  Destroying handles that name
\* no window raises X errors and destroys nothing.
CreateOutline(m) == [m EXCEPT !.outl = @ + 1, !.oval = TRUE]
DestroyOutline(m) ==
    IF m.oval THEN [m EXCEPT !.outl = @ - 1, !.oval = FALSE] ELSE m

\* WaWindow::DrawOutline: the four outline windows are resized and moved.
\* With handles that name no outline window the requests go to whatever the
\* handles hold, which is logged.
DrawOutline(m) == IF m.oval THEN m ELSE [m EXCEPT !.log.stray = TRUE]

\* XPutBackEvent for every entry of maprequest_list, front first: each goes
\* to the head of the queue
RECURSIVE PutBackAll(_, _)
PutBackAll(q, maps) ==
    IF maps = <<>> THEN q ELSE PutBackAll(<<Head(maps)>> \o q, Tail(maps))

\* position of the first queued event of type t for window w, 0 if none
RECURSIVE FirstGone(_, _, _, _)
FirstGone(q, t, w, i) ==
    IF i > Len(q) THEN 0
    ELSE IF q[i].type = t /\ q[i].n = w THEN i ELSE FirstGone(q, t, w, i + 1)

\* validateclient(id): a queued DestroyNotify, else a queued UnmapNotify, of
\* the window is taken out and put back at the head; the window is then invalid
validateclient(q, w) ==
    LET d == FirstGone(q, "DestroyNotify", w, 1)
        u == FirstGone(q, "UnmapNotify", w, 1)
        i == IF d # 0 THEN d ELSE u
    IN  IF i = 0 THEN [ok |-> TRUE, q |-> q]
        ELSE [ok |-> FALSE, q |-> <<q[i]>> \o EraseAt(q, i)]

\* WaWindow::~WaWindow as far as the registry is concerned
DeleteWindow(m, w) == [m EXCEPT !.wt = @ \ {w}]

\* the guard of the five session functions
SlotBusyNever(slot) == FALSE
SlotBusy(slot) == slot # "End"

\* WaWindow::IncSizeCheck(width, height, &n_w, &n_h) on the target
IncSizeCheck(m, wd, ht) ==
    LET a == m.at[Target]
        wok == /\ (wd >= a.width + size.width_inc
                   \/ wd <= a.width - size.width_inc \/ a.width = wd)
               /\ wd >= size.min_width /\ wd <= size.max_width
        n_w == IF ~wok THEN a.width
               ELSE IF size.width_inc = 1 THEN wd
               ELSE wd - ((wd - size.base_width) % size.width_inc)
        hstep == ht >= a.height + size.height_inc
                 \/ ht <= a.height - size.height_inc \/ a.height = ht
        round == IF size.height_inc = 1 THEN ht
                 ELSE ht - ((ht - size.base_height) % size.height_inc)
        shade == [m EXCEPT !.sh = TRUE, !.rs = IF m.sh THEN @ ELSE a.height]
    IN  IF ht <= -(handle_w + border_w * 2) /\ title_w # 0
        THEN [m |-> shade, resize |-> wok, n_w |-> n_w,
              n_h |-> -(handle_w + border_w) - (IF handle_w # 0 THEN border_w ELSE 0)]
        ELSE IF hstep /\ ht < 1 /\ size.min_height <= 1 /\ title_w # 0
        THEN [m |-> shade, resize |-> TRUE, n_w |-> n_w, n_h |-> round]
        ELSE IF hstep /\ ht >= size.min_height /\ ht <= size.max_height
        THEN [m |-> [m EXCEPT !.sh = FALSE], resize |-> TRUE, n_w |-> n_w,
              n_h |-> round]
        ELSE [m |-> m, resize |-> wok, n_w |-> n_w, n_h |-> a.height]

\* the DELETED macro: the window is marked deleted and the one guarded
\* display call is given up; the function carries on
DELETED(m) == [m EXCEPT !.del = TRUE]

\* XGrabServer .. XUngrabServer at the entry of Move, MoveOpaque, Resize and
\* ResizeOpaque.  gr is what the display answers: "ok", or the grab that is
\* refused ("ptr", "kbd"); a grab the window manager already holds is not
\* refused.  go tells whether the function proceeds to its event loop.
GrabSection(m, gr) ==
    LET v == validateclient(m.q, Target)
        m1 == [m EXCEPT !.srv = TRUE, !.q = v.q]
    IN  IF ~v.ok THEN [m |-> [DELETED(m1) EXCEPT !.srv = FALSE], go |-> TRUE]
        ELSE IF gr = "ptr" /\ ~m.ptr
        THEN [m |-> [m1 EXCEPT !.slot = "End", !.log.gfail = TRUE], go |-> FALSE]
        ELSE IF gr = "kbd" /\ ~m.kbd
        THEN [m |-> [m1 EXCEPT !.ptr = TRUE, !.slot = "End", !.log.gfail = TRUE],
              go |-> FALSE]
        ELSE [m |-> [m1 EXCEPT !.ptr = TRUE, !.kbd = TRUE, !.srv = FALSE],
              go |-> TRUE]

\* a session function has returned to the EvAct that called it, which has
\* the bindings `rest` left
Returned(m, rest) == [SetPend(m, rest) EXCEPT !.pc = "ret"]

\* a session function has reached its event loop
Entered(m, f, rest) == [Push(m, f, rest) EXCEPT !.pc = "fetch"]

Refused(m) == [m EXCEPT !.log.refused = TRUE]

\* WaWindow::Move(e, ac) up to its event loop; px is the pointer position
Move(m, e, gr, px, rest) ==
    IF SlotBusy(m.slot) THEN Refused(m)
    ELSE LET a == m.at[Target]
             fromMap == e.type = "MapRequest"
             nx == IF fromMap THEN px + border_w ELSE a.x
             m1 == [m EXCEPT !.slot = "Move"]
             m2 == IF fromMap
                   THEN DrawOutline(
                          CreateOutline([m1 EXCEPT !.at[Target].x = nx,
                                                   !.at[Target].y = title_w + border_w]))
                   ELSE m1
             g == GrabSection(m2, gr)
         IN  IF g.go
             THEN Entered(g.m, Frame("Move", fromMap, px, nx, 0, 0),
                          rest)
             ELSE Returned(g.m, rest)

\* WaWindow::MoveOpaque(e, ac) up to its event loop
MoveOpaque(m, e, gr, px, rest) ==
    IF SlotBusy(m.slot) THEN Refused(m)
    ELSE LET a == m.at[Target]
             fromMap == e.type = "MapRequest"
             nx == IF fromMap THEN px + border_w ELSE a.x
             m1 == [m EXCEPT !.slot = "MoveOpaque"]
             m2 == IF fromMap
                   THEN [m1 EXCEPT !.at[Target].x = nx,
                                   !.at[Target].y = title_w + border_w]
                   ELSE m1
             g == GrabSection([m2 EXCEPT !.ds[Target] = TRUE], gr)
         IN  IF g.go
             THEN Entered(g.m, Frame("MoveOpaque", FALSE, px, nx, 0, 0), rest)
             ELSE Returned(g.m, rest)

\* WaWindow::Resize(e, EastType) up to its event loop
Resize(m, e, gr, px, rest) ==
    IF SlotBusy(m.slot) THEN Refused(m)
    ELSE LET a == m.at[Target]
             fromMap == e.type = "MapRequest"
             n_x == IF fromMap THEN px - a.width - border_w * 2 ELSE a.x
             m1 == [m EXCEPT !.slot = "Resize"]
             m2 == IF fromMap
                   THEN DrawOutline(CreateOutline(
                            [m1 EXCEPT !.at[Target].x = n_x,
                                       !.at[Target].y =
                                           0 - a.height - title_w - border_w * 4]))
                   ELSE m1
             g == GrabSection(m2, gr)
         IN  IF g.go
             THEN Entered(g.m, Frame("Resize", fromMap, px, n_x, a.width, a.height), rest)
             ELSE Returned(g.m, rest)

\* WaWindow::ResizeOpaque(e, EastType) up to its event loop
ResizeOpaque(m, e, gr, px, rest) ==
    IF SlotBusy(m.slot) THEN Refused(m)
    ELSE LET a == m.at[Target]
             fromMap == e.type = "MapRequest"
             m1 == [m EXCEPT !.ds[Target] = TRUE, !.slot = "ResizeOpaque"]
             m2 == IF fromMap
                   THEN [m1 EXCEPT !.at[Target].x = px - a.width - border_w * 2,
                                   !.at[Target].y =
                                       0 - a.height - title_w - border_w * 4]
                   ELSE m1
             g == GrabSection(m2, gr)
         IN  IF g.go
             THEN Entered(g.m, Frame("ResizeOpaque", FALSE, px, 0, a.width, a.height), rest)
             ELSE Returned(g.m, rest)

\* dontsend of every managed window is set to v
SetAllDontsend(m, v) ==
    [m EXCEPT !.ds = [w \in WinIds |-> IF w \in m.wt THEN v ELSE m.ds[w]]]

\* WaScreen::ViewportMove(e, ac) up to its event loop: the results of the two
\* grab calls are not looked at
ViewportMove(m, e, gr, px, rest) ==
    IF SlotBusy(m.slot) THEN Refused(m)
    ELSE LET m1 == [m EXCEPT !.slot = "MoveOpaque",
                             !.ptr = IF gr = "ptr" /\ ~m.ptr THEN FALSE ELSE TRUE,
                             !.kbd = IF gr = "kbd" /\ ~m.kbd THEN FALSE ELSE TRUE,
                             !.log.gfail = \/ gr = "ptr" /\ ~m.ptr
                                           \/ gr = "kbd" /\ ~m.kbd]
         IN  Entered(SetAllDontsend(m1, TRUE),
                     Frame("ViewportMove", FALSE, px, 0, 0, 0), rest)

\* the event the EvAct of the current context was called with
CtxEv(m) == IF m.cs = <<>> THEN m.bev ELSE Top(m).ev

\* the bindings run by the EvAct of a screen (the event went to the root
\* window in a viewport drag, or to a screen edge): a screen has no window
\* actions
ScreenCtx(m) ==
    \/ m.cs # <<>> /\ Top(m).kind = "ViewportMove"
    \/ CtxEv(m).type = "Crossing"

\* the bindings the EvAct of the current context has left
CtxPend(m) == IF m.cs = <<>> THEN m.pend ELSE Top(m).pend


\* the cleanup at the end of a session function, then its return
Finalize(m) ==
    LET f == Top(m)
        q1 == PutBackAll(m.q, f.maps)
        off == [m EXCEPT !.kbd = FALSE, !.ptr = FALSE]
        out == IF f.started THEN DestroyOutline(off) ELSE off
    IN  CASE f.kind = "Move" ->
               Pop([out EXCEPT !.at[Target].x = f.nx, !.q = q1])
          [] f.kind = "MoveOpaque" ->
               Pop([off EXCEPT !.q = q1, !.ds[Target] = FALSE])
          [] f.kind = "Resize" ->
               Pop([out EXCEPT !.at[Target].width = f.n_w,
                               !.at[Target].height = f.n_h,
                               !.at[Target].x = f.nx, !.q = q1])
          [] f.kind = "ResizeOpaque" ->
               Pop([off EXCEPT !.q = q1, !.ds[Target] = FALSE])
          [] f.kind = "ViewportMove" ->
               \* every list entry points at the local event variable, which
               \* by now holds the button or key event
               Pop(SetAllDontsend(
                     [off EXCEPT !.q = PutBackAll(m.q, [i \in 1..Len(f.maps) |-> f.ev])],
                     FALSE))

\* the event loop of the session function goes round again
Continue(m) ==
    LET f == Top(m)
        a == m.at[Target]
    IN  CASE f.kind = "ResizeOpaque" ->
               SetTop(m, [f EXCEPT !.pend = <<>>, !.width = a.width,
                                   !.height = a.height])
          [] f.kind = "ViewportMove" ->
               SetAllDontsend(SetTop(m, [f EXCEPT !.pend = <<>>, !.ev = NoEv]), TRUE)
          [] OTHER -> SetTop(m, [f EXCEPT !.pend = <<>>, !.ev = NoEv])

\* the end of EvAct and what the caller of HandleEvent does next
AfterActs(m) ==
    LET m1 == IF ~ScreenCtx(m) /\ m.del /\ Target \in m.wt
              THEN [DeleteWindow(m, Target) EXCEPT !.del = FALSE]
              ELSE m
        \* Move draws the outline when HandleEvent has returned from a
        \* button or key event, Resize when it has returned from an edge
        \* crossing; neither looks at `started`
        m2 == IF m1.cs # <<>>
                 /\ \/ Top(m1).kind = "Move" /\ Top(m1).ev.type # "Crossing"
                    \/ Top(m1).kind = "Resize" /\ Top(m1).ev.type = "Crossing"
              THEN DrawOutline(m1) ELSE m1
    IN  IF m2.cs = <<>> THEN [m2 EXCEPT !.pend = <<>>, !.bev = NoEv, !.pc = "fetch"]
        ELSE IF m2.slot # "End" THEN [Continue(m2) EXCEPT !.pc = "fetch"]
        \* the EnterNotify / LeaveNotify branch of a window session breaks
        \* without looking at the slot
        ELSE IF Top(m2).kind \in WinActs /\ Top(m2).ev.type = "Crossing"
        THEN [Continue(m2) EXCEPT !.pc = "fetch"]
        ELSE [Finalize(m2) EXCEPT !.pc = "ret"]

\* the binding loop of EvAct in the current context, from the bindings `acts`
\* on, until a session function blocks in its loop or returns
RECURSIVE Run(_, _, _, _)
Run(m, acts, gr, px) ==
    IF acts = <<>> THEN AfterActs(m)
    ELSE LET act == Head(acts)
             rest == Tail(acts)
             e == CtxEv(m)
         IN  Let(CASE act = "EndMoveResize" -> [m EXCEPT !.slot = "End"]
                   [] act \in WinActs /\ ScreenCtx(m) -> m
                   [] act = "Move" -> Move(m, e, gr, px, rest)
                   [] act = "MoveOpaque" -> MoveOpaque(m, e, gr, px, rest)
                   [] act = "Resize" -> Resize(m, e, gr, px, rest)
                   [] act = "ResizeOpaque" -> ResizeOpaque(m, e, gr, px, rest)
                   [] act = "ViewportMove" -> ViewportMove(m, e, gr, px, rest),
                 LAMBDA r : IF r.pc = "run" THEN Run(r, rest, gr, px) ELSE r)

\* HandleEvent(&event) for a button or key event: EvAct finds the window
\* object of the event's window, or nothing happens
HandleActs(m, acts, gr, px) ==
    Run(m, IF ScreenCtx(m) \/ Target \in m.wt THEN acts ELSE <<>>, gr, px)

\* EventHandler::EvUnmapDestroy(&event) for window w
EvUnmapDestroy(m, w) == IF w \in m.wt THEN DeleteWindow(m, w) ELSE m

\* EventHandler::EvClientMessage for a change of state to WithdrawnState:
\* delete ww.  The event is in no return mask, so EventLoop hands it to
\* HandleEvent and waits for the next one.
EvClientMessage(m, ev) ==
    [(IF ev.n \in m.wt THEN DeleteWindow(m, ev.n) ELSE m) EXCEPT !.pc = "fetch"]

\* the DestroyNotify / UnmapNotify branch of a session loop for a window
\* other than the target, taken for the target too
HandleGoneInLoop(m, ev) == [EvUnmapDestroy(m, ev.n) EXCEPT !.pc = "fetch"]

\* a session loop that treated the target like any other window
TargetGoneStays(m, ev) == HandleGoneInLoop(m, ev)

\* the same branch without the assignment to the slot
TargetGoneKeepsSlot(m, ev) ==
    LET f == Top(m)
        q1 == <<ev>> \o PutBackAll(m.q, f.maps)
        m1 == IF f.started /\ f.kind \in {"Move", "Resize"}
              THEN DestroyOutline(m) ELSE m
        m2 == [m1 EXCEPT !.q = q1, !.kbd = FALSE, !.ptr = FALSE, !.pc = "ret"]
    IN  Pop(IF f.kind \in {"MoveOpaque", "ResizeOpaque"}
            THEN [m2 EXCEPT !.ds[Target] = FALSE] ELSE m2)

\* the DestroyNotify / UnmapNotify branch of the session loops of Move,
\* MoveOpaque, Resize and ResizeOpaque for the target window
TargetGone(m, ev) ==
    LET f == Top(m)
        q1 == <<ev>> \o PutBackAll(m.q, f.maps)
        m1 == IF f.started /\ f.kind \in {"Move", "Resize"}
              THEN DestroyOutline(m) ELSE m
        m2 == [m1 EXCEPT !.q = q1, !.kbd = FALSE, !.ptr = FALSE, !.slot = "End",
                         !.pc = "ret"]
    IN  Pop(IF f.kind \in {"MoveOpaque", "ResizeOpaque"}
            THEN [m2 EXCEPT !.ds[Target] = FALSE] ELSE m2)

\* the map-request is deferred: a copy goes to the front of maprequest_list
DeferMap(m, ev) ==
    LET f == Top(m)
    IN  [SetTop(m, [f EXCEPT !.maps = <<ev>> \o f.maps])
            EXCEPT !.arrived = IF InList(m.arrived, ev.n) THEN @ ELSE Append(@, ev.n),
                   !.pc = "fetch"]

\* the MotionNotify branch of the four window session loops
WinMotion(m, ev) ==
    LET f == Top(m)
        nx == f.nx + (ev.x - f.px)
        wd == f.width + (ev.x - f.px)
        c == IncSizeCheck(m, wd, f.height)
        outlined(s) == DrawOutline(IF f.started THEN s ELSE CreateOutline(s))
    IN  CASE f.kind = "Move" ->
               SetTop(outlined(m), [f EXCEPT !.nx = nx, !.px = ev.x, !.started = TRUE])
          [] f.kind = "MoveOpaque" ->
               SetTop([m EXCEPT !.at[Target].x = nx], [f EXCEPT !.nx = nx, !.px = ev.x])
          [] f.kind = "Resize" ->
               IF c.resize
               THEN SetTop(outlined(c.m),
                           [f EXCEPT !.width = wd, !.px = ev.x, !.n_w = c.n_w,
                                     !.n_h = c.n_h, !.started = TRUE])
               ELSE SetTop(c.m, [f EXCEPT !.width = wd, !.px = ev.x, !.n_w = c.n_w,
                                          !.n_h = c.n_h])
          [] f.kind = "ResizeOpaque" ->
               SetTop(IF c.resize
                      THEN [c.m EXCEPT !.at[Target].width = c.n_w,
                                       !.at[Target].height = c.n_h]
                      ELSE c.m,
                      [f EXCEPT !.width = wd, !.px = ev.x, !.n_w = c.n_w,
                                !.n_h = c.n_h])

\* the MotionNotify branch of the loop of ViewportMove
ViewportMotion(m, ev) ==
    LET f == Top(m)
        x == Clamp(m.vx - (ev.x - f.px), v_xmax)
        x_move == -(x - m.vx)
    IN  SetTop([m EXCEPT !.vx = x,
                         !.at = [w \in WinIds |->
                                   IF w \in m.wt /\ ~flags[w].sticky
                                   THEN [m.at[w] EXCEPT !.x = @ + x_move]
                                   ELSE m.at[w]]],
               [f EXCEPT !.px = ev.x])

\* one round of the event loop of the innermost session function
FrameFetch(m, ev, gr, px) ==
    LET f == Top(m)
    IN  IF f.kind = "ViewportMove"
        THEN CASE ev.type = "Motion" -> [ViewportMotion(m, ev) EXCEPT !.pc = "fetch"]
               [] ev.type = "MapRequest" ->
                    [SetTop(m, [f EXCEPT !.maps = <<NoEv>> \o f.maps])
                        EXCEPT !.pc = "fetch"]
               [] ev.type = "Button" ->
                    HandleActs(SetTop(m, [f EXCEPT !.ev = ev]), ev.acts, gr, px)
               [] ev.type = "Crossing" -> [m EXCEPT !.pc = "fetch"]
               [] ev.type = "ClientMessage" -> EvClientMessage(m, ev)
               [] OTHER -> HandleGoneInLoop(m, ev)
        ELSE CASE ev.type = "Motion" -> [WinMotion(m, ev) EXCEPT !.pc = "fetch"]
               [] ev.type = "MapRequest" -> DeferMap(m, ev)
               [] ev.type = "Button" -> HandleActs(m, ev.acts, gr, px)
               [] ev.type = "Crossing" ->
                    HandleActs(SetTop(m, [f EXCEPT !.ev = ev]), ev.acts, gr, px)
               [] ev.type = "ClientMessage" -> EvClientMessage(m, ev)
               [] IsGone(ev, Target) -> TargetGone(m, ev)
               [] OTHER -> HandleGoneInLoop(m, ev)

\* EventHandler::HandleEvent(&event) called from the top-level event loop
BaseFetch(m, ev, gr, px) ==
    CASE ev.type = "Motion" -> [m EXCEPT !.pc = "fetch"]
      [] ev.type = "MapRequest" ->
           HandleActs([m EXCEPT !.handled = Append(@, ev.n), !.bev = ev],
                      ev.acts, gr, px)
      [] ev.type \in {"Button", "Crossing"} ->
           HandleActs([m EXCEPT !.bev = ev], ev.acts, gr, px)
      [] ev.type = "ClientMessage" -> EvClientMessage(m, ev)
      [] OTHER -> [EvUnmapDestroy(m, ev.n) EXCEPT !.pc = "fetch"]

\* no session function runs and nothing is queued
ModalIdle ==
    /\ move_resize = "End" /\ callstack = <<>> /\ pend = <<>> /\ bev = NoEv
    /\ xqueue = <<>> /\ pointer = 0
    /\ ptr_grab = FALSE /\ kbd_grab = FALSE /\ srv_grab = FALSE
    /\ outlines = 0 /\ o_valid = FALSE /\ deleted = FALSE
    /\ shaded = FALSE /\ restore_shade = 0
    /\ arrived = <<>> /\ handled = <<>> /\ nmaps = 0 /\ pc = "fetch"

NoRes == [done |-> FALSE]
Timeval(sec, usec) == [tv_sec |-> sec, tv_usec |-> usec]

\* EventHandler::EventHandler: no click is remembered
ClickIdle ==
    /\ last_button = 0 /\ last_click_win = NoWin
    /\ last_click = Timeval(0, 0) /\ now = Timeval(0, 0)

\* WaWindow::InitPosition: the geometry kept for UnMaximize is the window's
MaxIdle ==
    /\ flags_max = FALSE
    /\ restore_max = [x |-> attrib[Target].x, y |-> attrib[Target].y,
                      width |-> attrib[Target].width,
                      height |-> attrib[Target].height,
                      misc0 |-> 0, misc1 |-> 0]

\* every window is mapped and a member of the one desktop, which is current
DeskIdle ==
    /\ current_desktop = 0
    /\ desktop_mask = [w \in WinIds |-> {0}]
    /\ hidden = [w \in WinIds |-> FALSE]
    /\ mapped = [w \in WinIds |-> TRUE]
    /\ frame_up = [w \in WinIds |-> TRUE]

\* no window is held as a record and no strut is set
WorkIdle ==
    /\ wawindow_list = <<>> /\ strut_list = <<>>
    /\ desk_workarea = [x |-> 0, y |-> 0, width |-> 0, height |-> 0]

\* no function is under study
AuxIdle == arg = NoRes /\ res = NoRes /\ ClickIdle /\ MaxIdle /\ DeskIdle /\ WorkIdle

SessionIdle == ModalIdle /\ AuxIdle

(***************************************************************************)
(* Initial states.                                                         *)
(***************************************************************************)
NoFlags == [alwaysontop |-> FALSE, alwaysatbottom |-> FALSE,
            forcedatbottom |-> FALSE, sticky |-> FALSE]

\* windows are managed in handle order: the constructor appends each to the
\* normal list
RECURSIVE Iota(_)
Iota(n) == IF n = 0 THEN <<>> ELSE Append(Iota(n - 1), n)

\* the sub-lists of l: some entries dropped, the order of the rest kept
RECURSIVE SubLists(_)
SubLists(l) ==
    IF l = <<>> THEN {<<>>}
    ELSE LET rest == SubLists(Tail(l))
         IN  rest \cup {<<Head(l)>> \o q : q \in rest}

\* handles once entered in the transient list of window 1, in the order they
\* were entered: a stale one, windows 2 and 3, a second stale one
TransientHistory == <<StaleA, 2, 3, StaleB>>

InitGeometry(sticky) ==
    /\ attrib = [w \in WinIds |-> [x |-> w - 1, y |-> 0, width |-> 1, height |-> 1]]
    /\ dontsend = [w \in WinIds |-> FALSE]
    /\ flags = [w \in WinIds |-> [NoFlags EXCEPT !.sticky = w \in sticky]]

InitScreen(w, h, vx, vy) ==
    /\ width = w /\ height = h
    /\ virtual_x = vx /\ virtual_y = vy
    /\ v_x = 0 /\ v_y = 0
    /\ v_xmax = (vx - 1) * w
    /\ v_ymax = (vy - 1) * h

InitLists(ed, tl) ==
    /\ window_table = WinIds
    /\ transients = [w \in WinIds |-> IF w = 1 THEN tl ELSE <<>>]
    /\ transient_for = [w \in WinIds |-> IF InList(tl, w) THEN 1 ELSE NoWin]
    /\ aot_stacking_list = <<>>
    /\ stacking_list = Iota(NumWin)
    /\ aab_stacking_list = <<>>
    /\ edges = ed
    /\ xstack = SelectSeq(EdgeOrder, LAMBDA e : e \in ed) \o Iota(NumWin)
                  \o SelectSeq(EdgeOrder, LAMBDA e : e \notin ed)

\* the stacking manager: the transient list of window 1 is an input, and may
\* name handles that no longer resolve
InitStack ==
    /\ \E ed \in {{}, {WestId, EastId}} :
       \E tl \in SubLists(TransientHistory) :
          InitLists(ed, tl)
    /\ InitGeometry({})
    /\ InitScreen(2, 2, 1, 1)
    /\ SessionIdle
    /\ trace = [op |-> "Init"]
    /\ steps = MaxSteps

NextStack ==
    \/ \E w \in WinIds : Raise(w)
    \/ \E w \in WinIds : Lower(w)
    \/ \E w \in WinIds : AlwaysontopOn(w)
    \/ \E w \in WinIds : AlwaysontopOff(w)
    \/ \E w \in WinIds : AlwaysontopToggle(w)
    \/ \E w \in WinIds : AlwaysatbottomOn(w)
    \/ \E w \in WinIds : AlwaysatbottomOff(w)
    \/ \E w \in WinIds : AlwaysatbottomToggle(w)
    \/ \E w \in WinIds : RaiseWindow(w)
    \/ \E w \in WinIds : LowerWindow(w)
    \/ \E w \in WinIds, d \in {"TopIf", "BottomIf", "Opposite"} :
          ConfigureStackMode(w, d)
    \/ \E w \in WinIds : UnmapDestroy(w)

SpecStack == InitStack /\ [][NextStack]_vars

\* the viewport manager
InitView ==
    /\ InitLists({}, <<>>)
    /\ \E k \in 0..NumWin : InitGeometry(1..k)
    /\ \E vx, vy \in 1..MaxVirtual : InitScreen(2, 2, vx, vy)
    /\ SessionIdle
    /\ trace = [op |-> "Init"]
    /\ steps = 0

NextView ==
    \/ \E x, y \in Reqs : MoveViewportTo(x, y)
    \/ \E d \in {"West", "East", "North", "South"} : MoveViewport(d)
    \/ \E x, y \in Reqs : ViewportFixedMove(x, y)
    \/ \E x, y \in Reqs : ViewportRelativeMove(x, y)
    \/ \E w, h \in ScreenSizes : RRUpdate(w, h)

SpecView == InitView /\ [][NextView]_vars

(***************************************************************************)
(* The event dispatcher with its nested session loops.                     *)
(***************************************************************************)
\* the state the session functions leave
Commit(r) ==
    /\ ~r.log.over
    /\ r.outl <= MaxOutlines
    /\ \A w \in WinIds : r.at[w].x <= MaxCoord /\ r.at[w].x >= -MaxCoord
    /\ move_resize' = r.slot /\ callstack' = r.cs /\ pend' = r.pend
    /\ bev' = r.bev /\ xqueue' = r.q /\ pc' = r.pc
    /\ ptr_grab' = r.ptr /\ kbd_grab' = r.kbd /\ srv_grab' = r.srv
    /\ outlines' = r.outl /\ o_valid' = r.oval /\ deleted' = r.del
    /\ shaded' = r.sh /\ restore_shade' = r.rs
    /\ arrived' = r.arrived /\ handled' = r.handled
    /\ attrib' = r.at /\ dontsend' = r.ds /\ v_x' = r.vx
    /\ window_table' = r.wt
    /\ stacking_list' = SelectSeq(stacking_list, LAMBDA h : h \in r.wt)
    /\ xstack' = SelectSeq(xstack, LAMBDA h : h \notin WinIds \/ h \in r.wt)
    /\ Step
    /\ UNCHANGED <<flags, transients, transient_for, aot_stacking_list,
                   aab_stacking_list, edges, width, height, virtual_x, virtual_y,
                   v_y, v_xmax, v_ymax>>
    /\ UNCHANGED auxvars

GrabAnswers == {"ok", "ptr", "kbd"}

\* the innermost event loop takes event ev, the queue behind it being restq
Take(op, ev, restq, gr) ==
    /\ steps > 0
    /\ \E m0 \in {[Cur EXCEPT !.q = restq, !.pc = "run"]} :
       \E r \in {IF m0.cs = <<>> THEN BaseFetch(m0, ev, gr, pointer)
                  ELSE FrameFetch(m0, ev, gr, pointer)} :
        /\ gr = "ok" \/ r.log.gfail
        /\ Commit(r)
        /\ trace' = [op |-> op, gone |-> IsGone(ev, Target),
                     refused |-> r.log.refused, gfail |-> r.log.gfail,
                     ended |-> r.log.ended, stray |-> r.log.stray]

\* XNextEvent returns the event at the head of the queue
Fetch ==
    /\ pc = "fetch" /\ xqueue # <<>>
    /\ \E gr \in GrabAnswers : Take("Fetch", Head(xqueue), Tail(xqueue), gr)
    /\ UNCHANGED <<pointer, nmaps>>

\* the queues an event can have behind it when it is taken: nothing, or the
\* DestroyNotify of the target
Behind ==
    {<<>>} \cup (IF Target \in window_table
                 THEN {<<GoneEv("DestroyNotify", Target)>>}
                 ELSE {})

\* the pointer moves and the MotionNotify is taken
DeliverMotion(x) ==
    /\ pc = "fetch" /\ xqueue = <<>> /\ x # pointer
    /\ Take("DeliverMotion", MotionEv(x), <<>>, "ok")
    /\ pointer' = x
    /\ UNCHANGED nmaps

\* a button or key event matching the bindings acts is taken
DeliverButton(acts, rq) ==
    /\ pc = "fetch" /\ xqueue = <<>>
    /\ \E gr \in GrabAnswers : Take("DeliverButton", ButtonEv(acts), rq, gr)
    /\ UNCHANGED <<pointer, nmaps>>

\* a client asks for a window to be mapped and the MapRequest is taken
DeliverMap(acts, rq) ==
    /\ pc = "fetch" /\ xqueue = <<>> /\ nmaps < MaxMaps
    /\ \E gr \in GrabAnswers : Take("DeliverMap", MapEv(nmaps + 1, acts), rq, gr)
    /\ nmaps' = nmaps + 1
    /\ UNCHANGED pointer

\* window w is destroyed or unmapped and the notification is taken
DeliverGone(t, w) ==
    /\ pc = "fetch" /\ xqueue = <<>> /\ w \in window_table
    /\ \E gr \in GrabAnswers : Take("DeliverGone", GoneEv(t, w), <<>>, gr)
    /\ UNCHANGED <<pointer, nmaps>>

\* the EvAct that called the returned session function fires its next bindings
Resume ==
    /\ pc = "ret" /\ steps > 0
    /\ \E gr \in GrabAnswers, m0 \in {[Cur EXCEPT !.pc = "run"]} :
         \E r \in {Run(m0, CtxPend(m0), gr, pointer)} :
             /\ gr = "ok" \/ r.log.gfail
             /\ Commit(r)
             /\ trace' = [op |-> "Resume", gone |-> FALSE,
                          refused |-> r.log.refused, gfail |-> r.log.gfail,
                          ended |-> r.log.ended, stray |-> r.log.stray]
    /\ UNCHANGED <<pointer, nmaps>>

InitSession ==
    /\ InitLists({}, <<>>)
    /\ InitGeometry({})
    /\ InitScreen(1, 1, 2, 1)
    /\ SessionIdle
    /\ trace = [op |-> "Init"]
    /\ steps = MaxEvents

NextSession ==
    \/ Fetch
    \/ \E x \in 0..MaxPtr : DeliverMotion(x)
    \/ \E acts \in BindLists, rq \in Behind : DeliverButton(acts, rq)
    \/ \E acts \in MapBindLists, rq \in Behind : DeliverMap(acts, rq)
    \/ \E t \in {"DestroyNotify", "UnmapNotify"}, w \in {Target, Target + 1} :
         DeliverGone(t, w)
    \/ Resume

SpecSession == InitSession /\ [][NextSession]_vars

\* the deferral and replay of map-requests: sessions are started, chained and
\* ended by bindings while clients ask for windows to be mapped
ReplayLists == {<<"EndMoveResize">>, <<"Move">>, <<"MoveOpaque">>,
                <<"Move", "ViewportMove">>, <<"EndMoveResize", "Move">>}

InitReplay ==
    /\ InitLists({}, <<>>)
    /\ InitGeometry({})
    /\ InitScreen(1, 1, 2, 1)
    /\ SessionIdle
    /\ trace = [op |-> "Init"]
    /\ steps = MaxReplay

NextReplay ==
    \/ Fetch
    \/ \E acts \in ReplayLists : DeliverButton(acts, <<>>)
    \/ DeliverMap(<<>>, <<>>)
    \/ Resume

SpecReplay == InitReplay /\ [][NextReplay]_vars

(***************************************************************************)
(* Properties of the stacking manager, checked under SpecStack.            *)
(***************************************************************************)
\* the logical stacking order: the three lists, front to back
Order == aot_stacking_list \o stacking_list \o aab_stacking_list

\* the layer lists window w is held in
LayersOf(w) ==
    {l \in {"aot", "norm", "aab"} : InList(CurLayers[l], w)}

\* C1: at every point between stacking operations each managed window's
\* frame is held in exactly one of the three stacking lists, exactly once.
C1_LayerClosure ==
    \A w \in window_table :
        Occ(aot_stacking_list, w) + Occ(stacking_list, w)
            + Occ(aab_stacking_list, w) = 1

\* C8: a step of RaiseWindow or LowerWindow leaves every managed window in
\* the layer lists it was in: only positions within a layer change.
C8_RaiseLowerKeepLayers ==
    [][\A h \in WinIds :
          (RaiseWindow(h) \/ LowerWindow(h)) =>
              \A w \in window_table : LayersOf(w)' = LayersOf(w)]_vars

\* the live transients of w, in list order
LiveTransients(w) == SelectSeq(transients[w], LAMBDA t : t \in window_table)

\* a is ahead of b in the list l
Ahead(l, a, b) == InList(l, a) /\ (InList(l, b) => FirstPos(l, a, 1) < FirstPos(l, b, 1))

\* C9: a raise of an owner with two live transients puts both transients
\* ahead of every window that was below the owner, and the transient
\* processed last ahead of the other one.
C9_TransientPropagation ==
    [][\A h \in WinIds :
          ((RaiseWindow(h)
              \/ (Raise(h) /\ ~flags[h].forcedatbottom
                    /\ ~flags[h].alwaysontop /\ ~flags[h].alwaysatbottom))
             /\ Len(LiveTransients(h)) = 2) =>
              LET t1 == LiveTransients(h)[1]
                  t2 == LiveTransients(h)[2]
              IN  /\ \A x \in window_table \ {h, t1, t2} :
                        (InList(Order, x) /\ Ahead(Order, h, x)) =>
                            (Ahead(Order, t1, x) /\ Ahead(Order, t2, x))'
                  /\ Ahead(Order, t2, t1)']_vars

(***************************************************************************)
(* Properties of the viewport manager, checked under SpecView.             *)
(***************************************************************************)
\* C3: the viewport offset stays inside the virtual area.
C3_ViewportInRange ==
    /\ 0 <= v_x /\ v_x <= v_xmax
    /\ 0 <= v_y /\ v_y <= v_ymax

\* C10: MoveViewportTo(x, y) shifts every managed non-sticky window by the
\* negated difference between the clamped request and the old offset, the
\* same for all of them, and leaves every sticky window where it was.
C10_ViewportShift ==
    [][trace'.op = "MoveViewportTo" =>
          LET dx == Clamp(trace'.x, v_xmax) - v_x
              dy == Clamp(trace'.y, v_ymax) - v_y
          IN  \A w \in window_table :
                 IF flags[w].sticky
                 THEN attrib'[w] = attrib[w]
                 ELSE attrib'[w] = [attrib[w] EXCEPT !.x = @ - dx, !.y = @ - dy]]_vars

\* a request beyond the virtual area has been clamped, moving a non-sticky
\* window and leaving a sticky one in place
C10_Witness ==
    /\ trace.op = "MoveViewportTo"
    /\ trace.x > v_xmax /\ v_x = v_xmax /\ v_xmax > 0
    /\ \E w \in window_table : ~flags[w].sticky /\ attrib[w].x = (w - 1) - v_x
    /\ \E w \in window_table : flags[w].sticky /\ attrib[w].x = w - 1

\* the steps of the dispatcher
SessionOps == {"Fetch", "DeliverMotion", "DeliverButton", "DeliverMap",
               "DeliverGone", "Resume"}

\* the events and answers a session function can be called with
CallEvents == {ButtonEv(<<>>), MapEv(1, <<>>)}

\* the call has left the session, the grabs and the windows as they were
Untouched(r) ==
    /\ r.slot = move_resize /\ r.cs = callstack
    /\ r.ptr = ptr_grab /\ r.kbd = kbd_grab
    /\ r.at = attrib /\ r.ds = dontsend /\ r.vx = v_x
    /\ r.outl = outlines /\ r.wt = window_table /\ r.q = xqueue
    /\ r.pc = pc

\* C2: whenever the session slot is not EndMoveResizeType, a call of Move,
\* MoveOpaque, Resize, ResizeOpaque or ViewportMove, with any event, any
\* answer to the grabs and any pointer position, returns to its caller with
\* the slot, the running sessions (their target and accumulated geometry),
\* the grabs, the outline and every window's geometry as they were.
C2_BusyNoOp ==
    move_resize # "End" =>
        \A e \in CallEvents, gr \in GrabAnswers, px \in 0..MaxPtr :
            /\ Untouched(Move(Cur, e, gr, px, <<>>))
            /\ Untouched(MoveOpaque(Cur, e, gr, px, <<>>))
            /\ Untouched(Resize(Cur, e, gr, px, <<>>))
            /\ Untouched(ResizeOpaque(Cur, e, gr, px, <<>>))
            /\ Untouched(ViewportMove(Cur, e, gr, px, <<>>))

\* a binding has called a session function while a session was running
C2_Witness ==
    /\ trace.op \in SessionOps /\ trace.refused
    /\ move_resize # "End" /\ callstack # <<>>

\* C4: a step in which a pointer or keyboard grab is refused at the start of
\* a session function leaves the slot at EndMoveResizeType, and the position
\* and size of every window, the outline windows and every dontsend flag as
\* they were before the step.
C4_GrabFailureNoEffect ==
    [][(trace'.op \in SessionOps /\ trace'.gfail) =>
          /\ move_resize' = "End"
          /\ attrib' = attrib
          /\ outlines' = outlines
          /\ dontsend' = dontsend]_vars

\* a grab has been refused
C4_Witness == trace.op \in SessionOps /\ trace.gfail

\* the map-requests deferred so far that are neither handled nor queued
NotReposted ==
    {n \in {arrived[i] : i \in 1..Len(arrived)} :
        /\ ~InList(handled, n)
        /\ \A i \in 1..Len(xqueue) :
              ~(xqueue[i].type = "MapRequest" /\ xqueue[i].n = n)}

\* C5: when a session function has returned and no other session function is
\* running, neither the pointer nor the keyboard is grabbed, no outline
\* window exists, every deferred map-request is handled or back in the event
\* queue, and the slot is EndMoveResizeType.
C5_CleanReturn ==
    (pc = "ret" /\ callstack = <<>>) =>
        /\ ~ptr_grab /\ ~kbd_grab
        /\ outlines = 0
        /\ NotReposted = {}
        /\ move_resize = "End"

\* a session function has returned to the top-level dispatcher
C5_Witness == pc = "ret" /\ callstack = <<>> /\ trace.op \in SessionOps

\* the innermost running session function is one of the four window sessions
InWindowSession == callstack # <<>> /\ Top(Cur).kind \in WinActs

\* C6: a step in which the loop of a window session takes the DestroyNotify or
\* UnmapNotify of the target ends that session in the step: the slot is
\* EndMoveResizeType, both grabs are released, the outline the session had
\* drawn is destroyed, the session function has returned, the notification is
\* back at the head of the queue and the window is still registered, so that
\* the dispatcher tears it down.
C6_TargetGoneEndsSession ==
    [][(InWindowSession /\ trace'.op \in {"Fetch", "DeliverGone"} /\ trace'.gone) =>
          /\ move_resize' = "End"
          /\ ~ptr_grab' /\ ~kbd_grab'
          /\ outlines' = outlines - (IF Top(Cur).started THEN 1 ELSE 0)
          /\ callstack' = SubSeq(callstack, 1, Len(callstack) - 1)
          /\ pc' = "ret"
          /\ xqueue' # <<>> /\ IsGone(Head(xqueue'), Target)
          /\ Target \in window_table'
          /\ attrib' = attrib]_vars

\* the target of a session with an outline and a deferred map-request has gone
C6_Witness ==
    /\ trace.op \in {"Fetch", "DeliverGone"} /\ trace.gone /\ trace.ended = 1
    /\ pc = "ret" /\ move_resize = "End" /\ outlines = 0
    /\ Len(xqueue) >= 2 /\ IsGone(Head(xqueue), Target)
    /\ xqueue[2].type = "MapRequest"

\* handled[i] for the deferred map-requests only
HandledDeferred == SelectSeq(handled, LAMBDA n : InList(arrived, n))

\* C7: the map-requests deferred by window sessions are handled by the
\* dispatcher in the order they arrived in, each once, and when the
\* dispatcher is idle again with an empty queue every one of them has been
\* handled.
C7_MapReplay ==
    /\ \A i, j \in 1..Len(handled) : i # j => handled[i] # handled[j]
    /\ \A i, j \in 1..Len(HandledDeferred) :
          i < j => FirstPos(arrived, HandledDeferred[i], 1)
                     < FirstPos(arrived, HandledDeferred[j], 1)
    /\ (pc = "fetch" /\ callstack = <<>> /\ xqueue = <<>>) =>
          \A i \in 1..Len(arrived) : InList(handled, arrived[i])

\* two deferred map-requests have been handled after their session
C7_Witness ==
    /\ Len(arrived) = 2 /\ handled = arrived
    /\ pc = "fetch" /\ callstack = <<>> /\ xqueue = <<>>

(***************************************************************************)
(* Matching an event against action bindings (Event.cc, Window.cc,         *)
(* Screen.cc).  A modifier mask is the set of the numbers of its bits.     *)
(***************************************************************************)
MaxDetail == 2          \* button numbers 1..MaxDetail; 0 is no detail
MaxBinds == 2           \* bindings in an action list

MoveResizeMask == 20    \* the pseudo-modifier bit, above the thirteen of the display
ModBits == {0, 12, MoveResizeMask}      \* ShiftMask, Button5Mask and the pseudo-modifier
EventTypes == {"ButtonPress", "ButtonRelease"}

\* every part of the display state that is modelled is idle
Quiet ==
    /\ InitLists({}, <<>>)
    /\ InitGeometry({})
    /\ InitScreen(1, 1, 2, 1)
    /\ trace = [op |-> "Init"]

\* eventmatch(act, ed)
eventmatch(act, ed) ==
    IF ed.type # act.type THEN FALSE
    ELSE IF (IF act.detail # 0 /\ ed.detail # 0 THEN act.detail = ed.detail ELSE TRUE)
    THEN /\ \A i \in 0..12 : i \in act.mod => i \in ed.mod
         /\ MoveResizeMask \in act.mod => MoveResizeMask \in ed.mod
         /\ \A i \in 0..12 : i \in act.nmod => i \notin ed.mod
         /\ MoveResizeMask \in act.nmod => MoveResizeMask \notin ed.mod
    ELSE FALSE

\* the bindings and event details eventmatch is called with
MatchActs ==
    [type : EventTypes, detail : 0..MaxDetail, mod : SUBSET ModBits,
     nmod : SUBSET ModBits]
MatchEvents == [type : EventTypes, detail : 0..MaxDetail, mod : SUBSET ModBits]

InitMatch ==
    /\ Quiet /\ ModalIdle /\ ClickIdle /\ MaxIdle /\ DeskIdle /\ WorkIdle
    /\ steps = 1
    /\ arg \in [act : MatchActs, ed : MatchEvents]
    /\ res = NoRes

\* one call of eventmatch
CallEventmatch ==
    /\ ~res.done
    /\ res' = [done |-> TRUE, match |-> eventmatch(arg.act, arg.ed)]
    /\ trace' = [op |-> "eventmatch"]
    /\ UNCHANGED <<stackvars, viewvars, steps, modalvars, arg, clickvars,
                   maxvars, deskvars, workvars>>

NextMatch == CallEventmatch

SpecMatch == InitMatch /\ [][NextMatch]_vars

\* C12: eventmatch answers true exactly when the types are equal, the
\* binding's detail is zero or equal to the event's, every bit of the
\* binding's mod is in the event's modifier state and no bit of its nmod is.
C12_EventmatchIff ==
    res.done =>
        (res.match <=>
            /\ arg.ed.type = arg.act.type
            /\ arg.act.detail = 0 \/ arg.act.detail = arg.ed.detail
            /\ arg.act.mod \subseteq arg.ed.mod
            /\ arg.act.nmod \cap arg.ed.mod = {})

\* a binding with a required and a forbidden modifier has matched an event of
\* its own detail
C12_Witness ==
    /\ res.done /\ res.match
    /\ arg.act.detail # 0 /\ arg.act.detail = arg.ed.detail
    /\ arg.act.mod # {} /\ arg.act.nmod # {}

(***************************************************************************)
(* Dispatching an event to the action list of an object: the binding loop  *)
(* of WaWindow::EvAct and WaScreen::EvAct.                                 *)
(***************************************************************************)

\* the functions a binding of this study names: EndMoveResize clears the
\* session slot, a command line is handed to waexec and changes nothing here
BindFuncs == {"EndMoveResize", "Exec"}

\* a WaAction: what it matches, what it runs, and whether it is delayed
BindActs ==
    [type : {"ButtonPress"}, detail : {0, 1},
     mod : {{}, {MoveResizeMask}}, nmod : {{}, {MoveResizeMask}},
     func : BindFuncs, delay : BOOLEAN]

BindEvents == [type : {"ButtonPress"}, detail : 1..MaxDetail, mod : {{}}]

RECURSIVE ListsUpTo(_, _)
ListsUpTo(S, n) ==
    IF n = 0 THEN {<<>>}
    ELSE LET L == ListsUpTo(S, n - 1)
         IN  L \cup {Append(l, a) : l \in {k \in L : Len(k) = n - 1}, a \in S}

\* a dispatch loop that stops at the first binding that matches
RECURSIVE EvActLoopFirst(_, _, _, _, _)
EvActLoopFirst(acts, i, ed, slot, fired) ==
    IF i > Len(acts) THEN [slot |-> slot, fired |-> fired]
    ELSE IF ~eventmatch(acts[i], ed)
    THEN EvActLoopFirst(acts, i + 1, ed, slot, fired)
    ELSE IF acts[i].delay
    THEN [slot |-> slot,
          fired |-> Append(fired, [i |-> i, how |-> "timer", active |-> slot # "End"])]
    ELSE [slot |-> IF acts[i].func = "EndMoveResize" THEN "End" ELSE slot,
          fired |-> Append(fired, [i |-> i, how |-> "call", active |-> slot # "End"])]

\* for (; it != acts->end(); ++it) if (eventmatch(*it, ed)) ...: a delayed
\* binding is handed to the timer, any other is run at once; `slot` is
\* eh->move_resize as the binding finds it
RECURSIVE EvActLoop(_, _, _, _, _)
EvActLoop(acts, i, ed, slot, fired) ==
    IF i > Len(acts) THEN [slot |-> slot, fired |-> fired]
    ELSE IF ~eventmatch(acts[i], ed)
    THEN EvActLoop(acts, i + 1, ed, slot, fired)
    ELSE IF acts[i].delay
    THEN EvActLoop(acts, i + 1, ed, slot,
                   Append(fired, [i |-> i, how |-> "timer", active |-> slot # "End"]))
    ELSE EvActLoop(acts, i + 1, ed,
                   IF acts[i].func = "EndMoveResize" THEN "End" ELSE slot,
                   Append(fired, [i |-> i, how |-> "call", active |-> slot # "End"]))

\* the event as EvAct matches it: the pseudo-modifier is added on entry when
\* a session function owns the slot
EvActEvent(ed, slot) ==
    IF slot # "End" THEN [ed EXCEPT !.mod = @ \cup {MoveResizeMask}] ELSE ed

\* a Move of the target is waiting in its event loop
InMove ==
    /\ move_resize = "Move"
    /\ callstack = <<Frame("Move", FALSE, 0, attrib[Target].x, 0, 0)>>
    /\ pend = <<>> /\ bev = NoEv /\ xqueue = <<>> /\ pointer = 0
    /\ ptr_grab = TRUE /\ kbd_grab = TRUE /\ srv_grab = FALSE
    /\ outlines = 0 /\ o_valid = FALSE /\ deleted = FALSE
    /\ shaded = FALSE /\ restore_shade = 0
    /\ arrived = <<>> /\ handled = <<>> /\ nmaps = 0 /\ pc = "fetch"

InitBind ==
    /\ Quiet
    /\ ModalIdle \/ InMove
    /\ ClickIdle /\ MaxIdle /\ DeskIdle /\ WorkIdle
    /\ steps = 1
    /\ arg \in [acts : ListsUpTo(BindActs, MaxBinds), ed : BindEvents]
    /\ res = NoRes

\* EvAct(e, ed, acts) on the target, called by HandleEvent or by the event
\* loop of the running Move; a Move whose slot was cleared leaves its loop,
\* releases its grabs and returns
CallEvAct ==
    /\ ~res.done
    /\ \E ed \in {EvActEvent(arg.ed, move_resize)} :
       \E r \in {EvActLoop(arg.acts, 1, ed, move_resize, <<>>)} :
          /\ res' = [done |-> TRUE, ed |-> ed, fired |-> r.fired]
          /\ move_resize' = r.slot
          /\ IF callstack # <<>> /\ r.slot = "End"
             THEN callstack' = <<>> /\ ptr_grab' = FALSE /\ kbd_grab' = FALSE
             ELSE UNCHANGED <<callstack, ptr_grab, kbd_grab>>
    /\ trace' = [op |-> "EvAct"]
    /\ UNCHANGED <<stackvars, viewvars, steps, arg, clickvars, maxvars, deskvars, workvars>>
    /\ UNCHANGED <<pend, bev, xqueue, pointer, srv_grab, outlines, o_valid,
                   deleted, shaded, restore_shade, arrived, handled, nmaps, pc>>

NextBind == CallEvAct

SpecBind == InitBind /\ [][NextBind]_vars

\* the positions of the bindings of `acts` that match `ed`, in list order
RECURSIVE Matching(_, _, _)
Matching(acts, i, ed) ==
    IF i > Len(acts) THEN <<>>
    ELSE (IF eventmatch(acts[i], ed) THEN <<i>> ELSE <<>>)
           \o Matching(acts, i + 1, ed)

\* C11: when an event is dispatched to an action list, the bindings that
\* are fired (run at once or handed to the timer) are exactly the bindings
\* that match the event, each once and in the order of the list; a match
\* earlier in the list does not keep a later one from firing.
C11_AllMatchesFire ==
    res.done =>
      [k \in 1..Len(res.fired) |-> res.fired[k].i] = Matching(arg.acts, 1, res.ed)

\* two bindings of one list have matched and both have fired
C11_Witness ==
    /\ res.done /\ Len(arg.acts) = 2 /\ Len(res.fired) = 2
    /\ res.fired[1].i = 1 /\ res.fired[2].i = 2
    /\ res.fired[1].how = "call"

\* C13: a binding that requires the session pseudo-modifier is run only
\* while a session function owns the slot, and a binding that forbids it is
\* run only while none does.
C13_ModalBindings ==
    res.done =>
      \A k \in 1..Len(res.fired) :
         res.fired[k].how = "call" =>
           /\ MoveResizeMask \in arg.acts[res.fired[k].i].mod => res.fired[k].active
           /\ MoveResizeMask \in arg.acts[res.fired[k].i].nmod => ~res.fired[k].active

\* a binding that requires the pseudo-modifier has run after the session
\* was ended by the binding before it
C13_Witness ==
    /\ res.done /\ Len(res.fired) = 2
    /\ arg.acts[1].func = "EndMoveResize" /\ res.fired[1].active
    /\ MoveResizeMask \in arg.acts[2].mod /\ res.fired[2].how = "call"
    /\ ~res.fired[2].active

(***************************************************************************)
(* Double clicks: the ButtonPress case of EventHandler::HandleEvent.       *)
(***************************************************************************)

TicksPerSec == 3        \* the 1000000 microseconds of a second, scaled down
DoubleClickTicks == 2   \* double_click * 1000 microseconds; under a second
MaxGap == 4             \* ticks that pass between two presses, at most
MaxClicks == 4          \* presses in a behaviour

\* gettimeofday, `dt` ticks after the time t; the clock does not go back
Later(t, dt) ==
    Timeval(t.tv_sec + (t.tv_usec + dt) \div TicksPerSec,
            (t.tv_usec + dt) % TicksPerSec)

\* a classification that keeps the record of the click it has paired
ClassifyKeepsRecord(lb, lw, lc, button, window, click_time) ==
    IF lb = button /\ lw = window
          /\ click_time.tv_sec <= lc.tv_sec + 1
          /\ \/ /\ click_time.tv_sec = lc.tv_sec
                /\ click_time.tv_usec - lc.tv_usec < DoubleClickTicks
             \/ (TicksPerSec - lc.tv_usec) + click_time.tv_usec < DoubleClickTicks
    THEN [type |-> "DoubleClick", win |-> window, click |-> click_time]
    ELSE [type |-> "ButtonPress", win |-> window, click |-> click_time]

\* case ButtonPress of HandleEvent: the type given to the event and the new
\* last_click_win and last_click, from last_button, last_click_win and
\* last_click.  The difference of the microseconds is not negative when the
\* seconds are equal, so that the cast to unsigned long keeps it.
Classify(lb, lw, lc, button, window, click_time) ==
    IF lb = button /\ lw = window
    THEN IF click_time.tv_sec <= lc.tv_sec + 1
         THEN IF /\ click_time.tv_sec = lc.tv_sec
                 /\ click_time.tv_usec - lc.tv_usec < DoubleClickTicks
              THEN [type |-> "DoubleClick", win |-> NoWin, click |-> lc]
              ELSE IF (TicksPerSec - lc.tv_usec) + click_time.tv_usec
                         < DoubleClickTicks
              THEN [type |-> "DoubleClick", win |-> NoWin, click |-> lc]
              ELSE [type |-> "ButtonPress", win |-> window, click |-> click_time]
         ELSE [type |-> "ButtonPress", win |-> window, click |-> click_time]
    ELSE [type |-> "ButtonPress", win |-> window, click |-> click_time]

InitClick ==
    /\ Quiet /\ ModalIdle /\ ClickIdle /\ MaxIdle /\ DeskIdle /\ WorkIdle
    /\ arg = NoRes /\ res = NoRes
    /\ steps = MaxClicks

\* HandleEvent for a ButtonPress of `button` on `window`, dt ticks after the
\* press before it
ButtonPress(button, window, dt) ==
    /\ Step
    /\ now' = Later(now, dt)
    /\ \E c \in {Classify(last_button, last_click_win, last_click,
                          button, window, Later(now, dt))} :
          /\ last_click_win' = c.win
          /\ last_click' = c.click
          /\ trace' = [op |-> "ButtonPress", button |-> button,
                       window |-> window, dt |-> dt, type |-> c.type,
                       prev |-> IF trace.op = "ButtonPress" THEN trace.type
                                ELSE "None",
                       same |-> /\ trace.op = "ButtonPress"
                                /\ trace.button = button
                                /\ trace.window = window]
    /\ last_button' = button
    /\ UNCHANGED <<stackvars, viewvars, modalvars, arg, res, maxvars, deskvars, workvars>>

NextClick ==
    \E button \in 1..MaxDetail, window \in WinIds, dt \in 0..MaxGap :
       ButtonPress(button, window, dt)

SpecClick == InitClick /\ [][NextClick]_vars

\* C14: a press of the same button on the same window as the ordinary press
\* before it, less than the double-click interval later, is a double click
\* and clears the last-click record; the press after a double click is an
\* ordinary press, however soon it comes.
C14_DoubleClick ==
    [][trace.op = "ButtonPress" /\ trace'.op = "ButtonPress" =>
         /\ (/\ trace.type = "ButtonPress"
             /\ trace'.button = trace.button /\ trace'.window = trace.window
             /\ trace'.dt < DoubleClickTicks)
            => trace'.type = "DoubleClick" /\ last_click_win' = NoWin
         /\ trace.type = "DoubleClick" => trace'.type = "ButtonPress"]_vars

\* a third press of the same button on the same window has come right after
\* a double click and is an ordinary press
C14_Witness ==
    /\ trace.op = "ButtonPress" /\ trace.prev = "DoubleClick" /\ trace.same
    /\ trace.dt = 0 /\ trace.type = "ButtonPress"
    /\ last_click_win = trace.window

(***************************************************************************)
(* Maximizing the target and restoring it (Window.cc).  The work area of   *)
(* the current desktop is the whole screen: no window reserves a strut.    *)
(***************************************************************************)

MaxToggles == 3     \* calls of Maximize and UnMaximize in a behaviour

\* WaScreen::GetWorkareaSize
workarea == [x |-> 0, y |-> 0, width |-> width, height |-> height]

\* if (move) { if (flags.max) ... } of WaWindow::RedrawWindow: a maximized
\* window that is moved records the virtual position of its frame
RedrawMoved(rm, a, vx, vy) ==
    [rm EXCEPT !.misc0 = vx + (a.x - border_w),
               !.misc1 = vy + (a.y - border_w - (title_w + border_w))]

\* WaWindow::_Maximize(x, y) for the target, x and y negative
Maximize ==
    /\ Step
    /\ ~flags_max
    /\ \E a \in {attrib[Target]} :
       \E new_width \in {workarea.width - border_w * 2} :
       \E new_height \in {workarea.height - border_w * 2 - title_w - handle_w
                            - border_w - border_w} :
       \E c \in {IncSizeCheck(Cur, new_width,
                              IF shaded THEN a.height ELSE new_height)} :
          IF c.resize
          THEN /\ attrib' = [attrib EXCEPT ![Target] =
                               [x |-> workarea.x + border_w,
                                y |-> workarea.y + title_w + border_w + border_w,
                                width |-> c.n_w, height |-> c.n_h]]
               /\ restore_max' = [x |-> a.x - workarea.x, y |-> a.y - workarea.y,
                                  width |-> a.width,
                                  height |-> IF shaded THEN restore_shade
                                             ELSE a.height,
                                  misc0 |-> v_x + workarea.x,
                                  misc1 |-> v_y + workarea.y]
               /\ flags_max' = TRUE
               /\ shaded' = c.m.sh
               /\ restore_shade' = IF shaded THEN new_height ELSE c.m.rs
               /\ arg' = [done |-> TRUE, attrib |-> a, v_x |-> v_x, v_y |-> v_y]
          ELSE /\ restore_max' = [restore_max EXCEPT
                                    !.width = a.width,
                                    !.height = IF shaded THEN restore_shade
                                               ELSE a.height]
               /\ shaded' = c.m.sh
               /\ restore_shade' = IF shaded THEN new_height ELSE c.m.rs
               /\ UNCHANGED <<attrib, flags_max, arg>>
    /\ trace' = [op |-> "Maximize"]
    /\ UNCHANGED <<stackvars, res, clickvars, deskvars, workvars>>
    /\ UNCHANGED <<dontsend, width, height, virtual_x, virtual_y, v_x, v_y,
                   v_xmax, v_ymax>>
    /\ UNCHANGED <<move_resize, callstack, pend, bev, xqueue, pointer, ptr_grab,
                   kbd_grab, srv_grab, outlines, o_valid, deleted, arrived,
                   handled, nmaps, pc>>

\* WaWindow::UnMaximize for the target
UnMaximize ==
    /\ Step
    /\ flags_max
    /\ \E a \in {attrib[Target]} :
       \E c \in {IncSizeCheck(Cur, restore_max.width,
                              IF shaded THEN a.height ELSE restore_max.height)} :
          IF c.resize
          THEN /\ attrib' = [attrib EXCEPT ![Target] =
                               [x |-> restore_max.x + (restore_max.misc0 - v_x),
                                y |-> restore_max.y + (restore_max.misc1 - v_y),
                                width |-> c.n_w, height |-> c.n_h]]
               /\ flags_max' = FALSE
               /\ shaded' = c.m.sh
               /\ restore_shade' = IF shaded THEN restore_max.height ELSE c.m.rs
          ELSE /\ shaded' = c.m.sh
               /\ restore_shade' = c.m.rs
               /\ UNCHANGED <<attrib, flags_max>>
    /\ trace' = [op |-> "UnMaximize"]
    /\ UNCHANGED <<stackvars, arg, res, restore_max, clickvars, deskvars, workvars>>
    /\ UNCHANGED <<dontsend, width, height, virtual_x, virtual_y, v_x, v_y,
                   v_xmax, v_ymax>>
    /\ UNCHANGED <<move_resize, callstack, pend, bev, xqueue, pointer, ptr_grab,
                   kbd_grab, srv_grab, outlines, o_valid, deleted, arrived,
                   handled, nmaps, pc>>

\* WaScreen::MoveViewportTo(x, y) with the RedrawWindow of a maximized target
Scroll(x, y) ==
    /\ DoMoveViewportTo(x, y)
    /\ restore_max' =
         IF flags_max /\ ~flags[Target].sticky /\ attrib'[Target] # attrib[Target]
         THEN RedrawMoved(restore_max, attrib'[Target], v_x', v_y')
         ELSE restore_max
    /\ trace' = [op |-> "MoveViewportTo", x |-> x, y |-> y]
    /\ UNCHANGED <<stackvars, steps, modalvars, arg, res, flags_max, clickvars,
                   deskvars, workvars>>

InitMax ==
    /\ InitLists({}, <<>>)
    /\ \E st \in SUBSET {Target} : InitGeometry(st)
    /\ \E vx, vy \in 1..MaxVirtual : InitScreen(4, 8, vx, vy)
    /\ SessionIdle
    /\ trace = [op |-> "Init"]
    /\ steps = MaxToggles

NextMax ==
    \/ Maximize
    \/ UnMaximize
    \/ \E x, y \in Reqs : Scroll(x, y)

SpecMax == InitMax /\ [][NextMax]_vars

\* C15: when UnMaximize has restored the target, its size is its size from
\* before Maximize, and its position is the one from before Maximize: the
\* same virtual position for a window that is not sticky, the same screen
\* position for a sticky window, wherever the viewport is by then.
C15_MaximizeRoundTrip ==
    (trace.op = "UnMaximize" /\ ~flags_max) =>
       /\ attrib[Target].width = arg.attrib.width
       /\ attrib[Target].height = arg.attrib.height
       /\ IF flags[Target].sticky
          THEN /\ attrib[Target].x = arg.attrib.x
               /\ attrib[Target].y = arg.attrib.y
          ELSE /\ attrib[Target].x + v_x = arg.attrib.x + arg.v_x
               /\ attrib[Target].y + v_y = arg.attrib.y + arg.v_y

\* the target has been restored with the viewport elsewhere than at Maximize
C15_Witness ==
    /\ trace.op = "UnMaximize" /\ ~flags_max
    /\ arg.done /\ (v_x # arg.v_x \/ v_y # arg.v_y)
    /\ flags[Target].sticky

\* the same for windows that are not sticky
C15_NotSticky ==
    (trace.op = "UnMaximize" /\ ~flags_max /\ ~flags[Target].sticky) =>
       /\ attrib[Target].width = arg.attrib.width
       /\ attrib[Target].height = arg.attrib.height
       /\ attrib[Target].x + v_x = arg.attrib.x + arg.v_x
       /\ attrib[Target].y + v_y = arg.attrib.y + arg.v_y

(***************************************************************************)
(* Size hints and WaWindow::IncSizeCheck as functions of their inputs.     *)
(***************************************************************************)

\* the % of C on ints: the quotient is truncated towards zero, so that the
\* remainder has the sign of the dividend
CRem(a, b) == IF a >= 0 THEN a % b ELSE -((-a) % b)

HintFlags == {"PMinSize", "PMaxSize", "PResizeInc", "PBaseSize"}

\* the WM_NORMAL_HINTS a client sets; width and height carry the same values
SizeHints ==
    [flags : SUBSET HintFlags, min : {50}, max : {80}, inc : {10},
     base : {50, 60}]

\* the decorations of the window: title_w, handle_w and border_w
Decors == [title_w : {0, 1}, handle_w : {1}, border_w : {0, 1}]

\* NetHandler::GetWMNormalHints: the defaults, what the client's hints
\* replace, and the least width the decorations need
GetWMNormalHints(h, d) ==
    LET min == IF "PMinSize" \in h.flags THEN h.min ELSE 1
        max == IF "PMaxSize" \in h.flags THEN h.max ELSE 65536
        inc == IF "PResizeInc" \in h.flags THEN h.inc ELSE 1
        base == IF "PBaseSize" \in h.flags THEN h.base ELSE 1
        m1 == IF min < (d.title_w - 4) * 3 + 8 THEN (d.title_w - 4) * 3 + 8
              ELSE min
        m2 == IF m1 < 50 + d.border_w THEN 50 + d.border_w ELSE m1
    IN  [min_width |-> m2, max_width |-> max, width_inc |-> inc,
         base_width |-> base, min_height |-> min, max_height |-> max,
         height_inc |-> inc, base_height |-> base]

\* WaWindow::IncSizeCheck(width, height, &n_w, &n_h) of a window with the
\* hints sz, the decorations d, the size a and the shaded flag sh.  wok and
\* hok tell which of the two candidates was taken.
SizeCheck(sz, d, a, sh, wd, ht) ==
    LET wok == /\ (wd >= a.width + sz.width_inc
                   \/ wd <= a.width - sz.width_inc \/ a.width = wd)
               /\ wd >= sz.min_width /\ wd <= sz.max_width
        n_w == IF ~wok THEN a.width
               ELSE IF sz.width_inc = 1 THEN wd
               ELSE wd - CRem(wd - sz.base_width, sz.width_inc)
        hstep == ht >= a.height + sz.height_inc
                 \/ ht <= a.height - sz.height_inc \/ a.height = ht
        round == IF sz.height_inc = 1 THEN ht
                 ELSE ht - CRem(ht - sz.base_height, sz.height_inc)
    IN  IF ht <= -(d.handle_w + d.border_w * 2) /\ d.title_w # 0
        THEN [resize |-> wok, n_w |-> n_w,
              n_h |-> -(d.handle_w + d.border_w)
                        - (IF d.handle_w # 0 THEN d.border_w ELSE 0),
              sh |-> TRUE, wok |-> wok, hok |-> FALSE]
        ELSE IF hstep /\ ht < 1 /\ sz.min_height <= 1 /\ d.title_w # 0
        THEN [resize |-> TRUE, n_w |-> n_w, n_h |-> round, sh |-> TRUE,
              wok |-> wok, hok |-> TRUE]
        ELSE IF hstep /\ ht >= sz.min_height /\ ht <= sz.max_height
        THEN [resize |-> TRUE, n_w |-> n_w, n_h |-> round, sh |-> FALSE,
              wok |-> wok, hok |-> TRUE]
        ELSE [resize |-> wok, n_w |-> n_w, n_h |-> a.height, sh |-> sh,
              wok |-> wok, hok |-> FALSE]

CurWidths == {51, 60, 100}
CurHeights == {60}
ReqWidths == {40, 55, 57, 60, 90}
ReqHeights == {-4, 0, 40, 57, 60}

InitSize ==
    /\ Quiet /\ ModalIdle /\ ClickIdle /\ MaxIdle /\ DeskIdle /\ WorkIdle
    /\ steps = 2
    /\ arg \in [hints : SizeHints, d : Decors,
                a : [width : CurWidths, height : CurHeights],
                wd : ReqWidths, ht : ReqHeights]
    /\ res = NoRes

\* the hints are read and IncSizeCheck is called with the request
CallIncSizeCheck ==
    /\ Step
    /\ ~res.done
    /\ \E sz \in {GetWMNormalHints(arg.hints, arg.d)} :
       \E c \in {SizeCheck(sz, arg.d, arg.a, FALSE, arg.wd, arg.ht)} :
          res' = [done |-> TRUE, again |-> FALSE, size |-> sz, first |-> c,
                  second |-> c]
    /\ trace' = [op |-> "IncSizeCheck"]
    /\ UNCHANGED <<stackvars, viewvars, modalvars, arg, clickvars, maxvars,
                   deskvars, workvars>>

\* the caller has given the window the size that was accepted, and the same
\* size is asked for again
CallAgain ==
    /\ Step
    /\ res.done /\ ~res.again /\ res.first.resize
    /\ \E c \in {SizeCheck(res.size, arg.d,
                           [width |-> res.first.n_w, height |-> res.first.n_h],
                           res.first.sh, res.first.n_w, res.first.n_h)} :
          res' = [res EXCEPT !.again = TRUE, !.second = c]
    /\ trace' = [op |-> "IncSizeCheckAgain"]
    /\ UNCHANGED <<stackvars, viewvars, modalvars, arg, clickvars, maxvars,
                   deskvars, workvars>>

NextSize == CallIncSizeCheck \/ CallAgain

SpecSize == InitSize /\ [][NextSize]_vars

\* the valid sizes of a dimension: from min to max, on the increment grid
ValidSize(n, min, max, base, inc) ==
    n >= min /\ n <= max /\ (n - base) % inc = 0

\* C16: a request that breaks the minimum, the maximum or the increment is
\* not turned down: IncSizeCheck returns true, and the width and height it
\* returns are valid sizes.
C16_NeverRejects ==
    (/\ res.done /\ ~res.again
     /\ \/ ~ValidSize(arg.wd, res.size.min_width, res.size.max_width,
                      res.size.base_width, res.size.width_inc)
        \/ ~ValidSize(arg.ht, res.size.min_height, res.size.max_height,
                      res.size.base_height, res.size.height_inc)) =>
       /\ res.first.resize
       /\ ValidSize(res.first.n_w, res.size.min_width, res.size.max_width,
                    res.size.base_width, res.size.width_inc)

\* a request under the minimum in both dimensions has been checked
C16_Witness ==
    /\ res.done /\ ~res.again /\ ~res.first.resize
    /\ arg.wd < res.size.min_width /\ arg.ht < res.size.min_height
    /\ arg.ht >= 1

\* C17: a candidate width that IncSizeCheck takes comes back snapped down
\* to the increment grid counted from the base width: not above the
\* candidate, less than one increment under it, and a whole number of
\* increments from the base; the same for a candidate height.
C17_SnapDown ==
    (res.done /\ ~res.again) =>
       /\ res.first.wok =>
            /\ res.first.n_w <= arg.wd
            /\ arg.wd - res.first.n_w < res.size.width_inc
            /\ (res.first.n_w - res.size.base_width) % res.size.width_inc = 0
       /\ res.first.hok =>
            /\ res.first.n_h <= arg.ht
            /\ arg.ht - res.first.n_h < res.size.height_inc
            /\ (res.first.n_h - res.size.base_height) % res.size.height_inc = 0

\* a candidate height under the base height has been taken
C17_Witness ==
    /\ res.done /\ ~res.again /\ res.first.hok
    /\ arg.ht < res.size.base_height /\ res.size.height_inc > 1
    /\ res.first.n_h > arg.ht

\* C18: with a minimum width of 50 and a width increment of 10 in the size
\* hints, a request for width 57 gives a width 50 + 10k with k >= 0, and
\* asking for that width again is accepted and gives the same width.
C18_RoundTrip ==
    (/\ res.done
     /\ {"PMinSize", "PResizeInc"} \subseteq arg.hints.flags
     /\ arg.hints.min = 50 /\ arg.hints.inc = 10 /\ arg.wd = 57) =>
       /\ res.first.resize
       /\ res.first.n_w >= 50 /\ (res.first.n_w - 50) % 10 = 0
       /\ res.again => res.second.resize /\ res.second.n_w = res.first.n_w

\* width 57 has been asked of a window with those hints and 51 has come back
C18_Witness ==
    /\ res.done /\ res.again
    /\ arg.hints.flags = {"PMinSize", "PResizeInc"} /\ arg.wd = 57
    /\ res.first.wok /\ res.first.n_w = 51

(***************************************************************************)
(* Desktops: membership masks, the current desktop, hidden windows.        *)
(***************************************************************************)

NumDesks == 2           \* config.desktops; the desktops are 0..NumDesks-1
MaskBits == 16          \* "all" is (1L << 16) - 1
DeskWins == {1, 2}      \* the windows that come, go and change desktops
Desks == 0..(NumDesks - 1)
AllDesks == 0..(MaskBits - 1)

\* the desktop fields of one window
DeskOf(w) ==
    [mask |-> desktop_mask[w], hidden |-> hidden[w], mapped |-> mapped[w],
     up |-> frame_up[w]]

\* WaWindow::Show and WaWindow::Hide
Show(s) == IF s.hidden /\ s.mapped THEN [s EXCEPT !.up = TRUE, !.hidden = FALSE]
           ELSE s
Hide(s) == IF ~s.hidden THEN [s EXCEPT !.up = FALSE, !.hidden = TRUE] ELSE s

ShowOrHide(s, cur) == IF cur \in s.mask THEN Show(s) ELSE Hide(s)

\* WaWindow::MapWindow
MapWindow(s, cur) ==
    IF cur \in s.mask THEN [s EXCEPT !.up = TRUE, !.mapped = TRUE]
    ELSE [s EXCEPT !.hidden = TRUE, !.mapped = TRUE]

\* NetHandler::SetState(ww, NormalState)
SetState(s) == [s EXCEPT !.up = TRUE, !.mapped = TRUE]

\* the desktop actions of a window; d is the desktop the parameter names,
\* p the set of desktops it names, "all" included
DeskActs ==
    [f : {"JoinDesktop", "PartDesktop", "PartCurrentJoinDesktop"},
     d : 0..NumDesks, p : {{}}] \cup
    [f : {"PartCurrentDesktop", "JoinAllDesktops",
          "PartAllDesktopsExceptCurrent"}, d : {0}, p : {{}}] \cup
    [f : {"DesktopMask"}, d : {0}, p : (SUBSET (0..NumDesks)) \cup {AllDesks}]

\* WaWindow::DesktopMask, JoinDesktop, PartDesktop, PartCurrentDesktop,
\* JoinAllDesktops, PartAllDesktopsExceptCurrent and PartCurrentJoinDesktop
DeskAct(s, act, cur) ==
    CASE act.f = "DesktopMask" ->
           LET m0 == IF act.p = AllDesks THEN AllDesks ELSE act.p \cap Desks
               m1 == IF m0 = {} THEN {0} ELSE m0
           IN  ShowOrHide([s EXCEPT !.mask = m1], cur)
      [] act.f = "JoinDesktop" ->
           IF act.d \in Desks
           THEN LET s1 == [s EXCEPT !.mask = @ \cup {act.d}]
                IN  IF cur \in s1.mask THEN Show(s1) ELSE s1
           ELSE s
      [] act.f = "PartDesktop" ->
           IF act.d \in Desks /\ s.mask \ {act.d} # {}
           THEN LET s1 == [s EXCEPT !.mask = @ \ {act.d}]
                IN  IF cur \notin s1.mask THEN Hide(s1) ELSE s1
           ELSE s
      [] act.f = "PartCurrentDesktop" ->
           IF s.mask \ {cur} # {} THEN Hide([s EXCEPT !.mask = @ \ {cur}]) ELSE s
      [] act.f = "JoinAllDesktops" -> Show([s EXCEPT !.mask = AllDesks])
      [] act.f = "PartAllDesktopsExceptCurrent" -> Show([s EXCEPT !.mask = {cur}])
      [] act.f = "PartCurrentJoinDesktop" ->
           IF act.d \in Desks
           THEN ShowOrHide([s EXCEPT !.mask = (@ \ {cur}) \cup {act.d}], cur)
           ELSE s

RECURSIVE DeskActsAll(_, _, _)
DeskActsAll(s, acts, cur) ==
    IF acts = <<>> THEN s
    ELSE DeskActsAll(DeskAct(s, Head(acts), cur), Tail(acts), cur)

\* the desktop fields of window w become s
SetDesk(w, s) ==
    /\ desktop_mask' = [desktop_mask EXCEPT ![w] = s.mask]
    /\ hidden' = [hidden EXCEPT ![w] = s.hidden]
    /\ mapped' = [mapped EXCEPT ![w] = s.mapped]
    /\ frame_up' = [frame_up EXCEPT ![w] = s.up]

DeskRest ==
    UNCHANGED <<flags, transients, transient_for, aot_stacking_list,
                stacking_list, aab_stacking_list, edges, xstack, viewvars,
                steps, modalvars, arg, res, clickvars, maxvars, workvars>>

\* WaScreen::GoToDesktop(number)
DoGoToDesktop(number) ==
    IF number \in Desks /\ number # current_desktop
    THEN /\ current_desktop' = number
         /\ \E n \in {[w \in WinIds |->
                        IF w \in window_table
                        THEN ShowOrHide(DeskOf(w), number) ELSE DeskOf(w)]} :
               /\ hidden' = [w \in WinIds |-> n[w].hidden]
               /\ frame_up' = [w \in WinIds |-> n[w].up]
         /\ UNCHANGED <<desktop_mask, mapped>>
    ELSE UNCHANGED deskvars

GoToDesktop(number) ==
    /\ DoGoToDesktop(number)
    /\ trace' = [op |-> "GoToDesktop"]
    /\ UNCHANGED window_table /\ DeskRest

\* WaScreen::NextDesktop
NextDesktop ==
    /\ DoGoToDesktop(IF current_desktop + 1 = NumDesks THEN 0
                     ELSE current_desktop + 1)
    /\ trace' = [op |-> "NextDesktop"]
    /\ UNCHANGED window_table /\ DeskRest

\* WaScreen::PreviousDesktop
PreviousDesktop ==
    /\ DoGoToDesktop(IF current_desktop = 0 THEN NumDesks - 1
                     ELSE current_desktop - 1)
    /\ trace' = [op |-> "PreviousDesktop"]
    /\ UNCHANGED window_table /\ DeskRest

\* a desktop action bound to an event of the managed window w
WindowDeskAct(w, act) ==
    /\ w \in window_table
    /\ SetDesk(w, DeskAct(DeskOf(w), act, current_desktop))
    /\ trace' = [op |-> act.f]
    /\ UNCHANGED <<window_table, current_desktop>> /\ DeskRest

\* the _NET_WM_DESKTOP client message for w; d = NumDesks + 1 stands for
\* 0xffffffff
NetWmDesktop(w, d) ==
    /\ w \in window_table
    /\ SetDesk(w, IF d = NumDesks + 1
                  THEN Show([DeskOf(w) EXCEPT !.mask = AllDesks])
                  ELSE IF d \in Desks
                  THEN ShowOrHide([DeskOf(w) EXCEPT !.mask = {d}], current_desktop)
                  ELSE DeskOf(w))
    /\ trace' = [op |-> "net_wm_desktop"]
    /\ UNCHANGED <<window_table, current_desktop>> /\ DeskRest

\* the desktop-mask client message for w: the mask p is taken when its value
\* is under (1L << config.desktops) - 1
NetDesktopMask(w, p) ==
    /\ w \in window_table
    /\ SetDesk(w, IF p \subseteq Desks /\ p # Desks
                  THEN ShowOrHide([DeskOf(w) EXCEPT !.mask = p], current_desktop)
                  ELSE DeskOf(w))
    /\ trace' = [op |-> "desktop_mask"]
    /\ UNCHANGED <<window_table, current_desktop>> /\ DeskRest

\* WaWindow::DecorTitleOn and its like: the decorations change and the
\* window is mapped anew
DecorChange(w) ==
    /\ w \in window_table
    /\ SetDesk(w, MapWindow(DeskOf(w), current_desktop))
    /\ trace' = [op |-> "Decor"]
    /\ UNCHANGED <<window_table, current_desktop>> /\ DeskRest

\* EvUnmapDestroy: the client has withdrawn w and its WaWindow is deleted
Withdraw(w) ==
    /\ w \in window_table
    /\ window_table' = window_table \ {w}
    /\ SetDesk(w, [mask |-> {}, hidden |-> FALSE, mapped |-> FALSE, up |-> FALSE])
    /\ trace' = [op |-> "Withdraw"]
    /\ UNCHANGED current_desktop /\ DeskRest

\* HandleEvent for the MapRequest of a window not yet managed: the WaWindow
\* is made, a member of the current desktop and neither mapped nor hidden;
\* EvAct fires the bindings acts of its MapRequest list and then maps it
MapRequest(w, acts) ==
    /\ w \notin window_table
    /\ window_table' = window_table \cup {w}
    /\ SetDesk(w, SetState(DeskActsAll(
                     [mask |-> {current_desktop}, hidden |-> FALSE,
                      mapped |-> FALSE, up |-> FALSE], acts, current_desktop)))
    /\ trace' = [op |-> "MapRequest", acts |-> acts]
    /\ UNCHANGED current_desktop /\ DeskRest

InitDesk ==
    /\ InitLists({}, <<>>)
    /\ InitGeometry({})
    /\ InitScreen(1, 1, 2, 1)
    /\ SessionIdle
    /\ trace = [op |-> "Init"]
    /\ steps = 0

NextDesk ==
    \/ \E n \in 0..NumDesks : GoToDesktop(n)
    \/ NextDesktop
    \/ PreviousDesktop
    \/ \E w \in DeskWins, act \in DeskActs : WindowDeskAct(w, act)
    \/ \E w \in DeskWins, d \in 0..(NumDesks + 1) : NetWmDesktop(w, d)
    \/ \E w \in DeskWins, p \in SUBSET (0..NumDesks) : NetDesktopMask(w, p)
    \/ \E w \in DeskWins : DecorChange(w)
    \/ \E w \in DeskWins : Withdraw(w)
    \/ \E w \in DeskWins, acts \in ListsUpTo(DeskActs, MaxBinds) : MapRequest(w, acts)

SpecDesk == InitDesk /\ [][NextDesk]_vars

\* C19: between two events, every managed window that is mapped is hidden
\* exactly when its desktop mask does not hold the current desktop.
C19_HiddenIffOffDesktop ==
    \A w \in window_table :
       mapped[w] => (hidden[w] <=> current_desktop \notin desktop_mask[w])

\* a window has been mapped that its MapRequest bindings had taken off the
\* current desktop and put back on it
C19_Witness ==
    /\ trace.op = "MapRequest" /\ Len(trace.acts) = 2
    /\ \E w \in window_table :
          /\ mapped[w] /\ hidden[w] /\ frame_up[w]
          /\ current_desktop \in desktop_mask[w]

(***************************************************************************)
(* The order on the display against the three lists.                       *)
(***************************************************************************)

\* the windows of the display that are active edges or held in a list, in
\* their order on the display, front first
Physical ==
    SelectSeq(xstack, LAMBDA e : e \in edges \/ InList(Order, e))

\* the display has the active edges in front and then the three lists
InListOrder ==
    Physical = SelectSeq(EdgeOrder, LAMBDA e : e \in edges) \o Order

\* restacks by RaiseWindow and LowerWindow among windows that the layer
\* actions have spread over the three lists
NextRestack ==
    \/ \E w \in WinIds : RaiseWindow(w)
    \/ \E w \in WinIds : LowerWindow(w)
    \/ \E w \in WinIds : AlwaysontopOn(w)
    \/ \E w \in WinIds : AlwaysatbottomOn(w)

SpecRestack == InitStack /\ [][NextRestack]_vars

\* C20: when the frames held in the three lists are on the display in the
\* order of the always-on-top list, then the normal list, then the
\* always-at-bottom list, all below the active edge windows, then this is
\* so again when RaiseWindow(h) or LowerWindow(h) has completed.
C20_RestackMatchesLists ==
    [][\A h \in WinIds :
          ((RaiseWindow(h) \/ LowerWindow(h)) /\ InListOrder) => InListOrder']_vars

\* RaiseWindow has brought a window to the front of the normal list, with
\* edge windows active, from an order that matched the lists
C20_Witness ==
    /\ trace.op = "RaiseWindow" /\ steps = MaxSteps - 1
    /\ edges # {} /\ stacking_list # <<>> /\ stacking_list[1] # 1
    /\ InListOrder

(***************************************************************************)
(* Raise and lower requests on a window that is forced to the bottom.     *)
(* Such a window is left out of the stacking lists when it is managed     *)
(* (Window.cc:171-173) and its frame sits below the frames of the lists.  *)
(***************************************************************************)

\* the forced window is the last one managed; it is the only managed window
\* or one of NumWin
InitForced ==
    /\ \E ed \in {{}, {WestId, EastId}} :
       \E wt \in {WinIds, {NumWin}} :
       \E tl \in {<<>>, <<2>>} :
          /\ window_table = wt
          /\ transients = [w \in WinIds |-> IF w = 1 THEN tl ELSE <<>>]
          /\ transient_for = [w \in WinIds |-> IF InList(tl, w) THEN 1 ELSE NoWin]
          /\ aot_stacking_list = <<>>
          /\ stacking_list = SelectSeq(Iota(NumWin - 1), LAMBDA w : w \in wt)
          /\ aab_stacking_list = <<>>
          /\ edges = ed
          /\ xstack = SelectSeq(EdgeOrder, LAMBDA e : e \in ed)
                        \o SelectSeq(Iota(NumWin), LAMBDA w : w \in wt)
                        \o SelectSeq(EdgeOrder, LAMBDA e : e \notin ed)
    /\ attrib = [w \in WinIds |-> [x |-> w - 1, y |-> 0, width |-> 1, height |-> 1]]
    /\ dontsend = [w \in WinIds |-> FALSE]
    /\ flags = [w \in WinIds |-> [NoFlags EXCEPT !.forcedatbottom = (w = NumWin)]]
    /\ InitScreen(2, 2, 1, 1)
    /\ SessionIdle
    /\ trace = [op |-> "Init"]
    /\ steps = MaxSteps

NextForced ==
    \/ \E w \in WinIds : Raise(w)
    \/ \E w \in WinIds : Lower(w)
    \/ \E w \in WinIds : RaiseWindow(w)
    \/ \E w \in WinIds : LowerWindow(w)
    \/ \E w \in WinIds : AlwaysontopOn(w)
    \/ \E w \in WinIds : AlwaysatbottomOn(w)

SpecForced == InitForced /\ [][NextForced]_vars

\* C21: a Raise or Lower action, or a configure-request with stack mode Above
\* or Below, on a window marked forced-to-bottom changes none of the three
\* stacking lists and not the stacking order of the display.
C21_ForcedNoOp ==
    [][\A w \in WinIds :
          (flags[w].forcedatbottom
             /\ (Raise(w) \/ Lower(w) \/ RaiseWindow(w) \/ LowerWindow(w)))
          => UNCHANGED <<aot_stacking_list, stacking_list, aab_stacking_list,
                         xstack>>]_vars

\* a configure-request with stack mode Above or Below has been handled for
\* the forced window while it was the only managed window and no screen
\* edge was active
C21_Witness ==
    /\ trace.op \in {"RaiseWindow", "LowerWindow"}
    /\ window_table = {NumWin} /\ flags[NumWin].forcedatbottom
    /\ edges = {}
    /\ steps = MaxSteps - 1

(***************************************************************************)
(* Pruning of stale transient handles by a raise.                          *)
(***************************************************************************)

\* every handle of the list resolves to a managed window
AllLive(tl, wt) == \A i \in 1..Len(tl) : FindWin(wt, tl[i])

\* C22: when a raise of an owner window (the Raise action or a
\* configure-request with stack mode Above) has returned, every handle in
\* the owner's transient list resolves to a managed window.
C22_StalePruned ==
    [][\A w \in WinIds :
          (Raise(w) \/ RaiseWindow(w)) => AllLive(transients'[w], window_table')]_vars

\* window 1, whose transient list named two stale handles, has been raised
\* by the Raise action
C22_Witness ==
    /\ trace.op = "Raise" /\ steps = MaxSteps - 1
    /\ window_table = WinIds
    /\ stacking_list[1] = 1
    /\ transients[1] = <<StaleB>>

(***************************************************************************)
(* Sessions with active screen edges: the pointer crossing an edge is      *)
(* handled inside the loops of the window sessions (Window.cc:1356-1362).  *)
(***************************************************************************)
MaxEdgeEvents == 4  \* events taken and returns resumed in one behaviour

\* the action lists an edge crossing can match: screen actions
EdgeBindLists == {<<"EndMoveResize">>, <<"ViewportMove">>}

\* the pointer enters or leaves an active screen edge and the event is taken
DeliverCrossing(acts) ==
    /\ pc = "fetch" /\ xqueue = <<>> /\ edges # {}
    /\ \E gr \in GrabAnswers : Take("DeliverCrossing", CrossingEv(acts), <<>>, gr)
    /\ UNCHANGED <<pointer, nmaps>>

InitEdge ==
    /\ InitLists({WestId, EastId}, <<>>)
    /\ InitGeometry({})
    /\ InitScreen(1, 1, 2, 1)
    /\ SessionIdle
    /\ trace = [op |-> "Init"]
    /\ steps = MaxEdgeEvents

NextEdge ==
    \/ Fetch
    \/ \E x \in 0..MaxPtr : DeliverMotion(x)
    \/ \E acts \in BindLists, rq \in Behind : DeliverButton(acts, rq)
    \/ \E acts \in EdgeBindLists : DeliverCrossing(acts)
    \/ \E t \in {"DestroyNotify", "UnmapNotify"} : DeliverGone(t, Target)
    \/ Resume

SpecEdge == InitEdge /\ [][NextEdge]_vars

EdgeOps == SessionOps \cup {"DeliverCrossing"}

\* C23: when a session function that had entered its event loop has just
\* returned, the session slot is EndMoveResizeType, and so it is whenever the
\* top-level dispatcher waits for an event with no session function running.
C23_IdleOnReturn ==
    /\ (pc = "ret" /\ trace.op \in EdgeOps /\ trace.ended > 0) => move_resize = "End"
    /\ (pc = "fetch" /\ callstack = <<>>) => move_resize = "End"

\* a session that had drawn its outline has returned to the top-level
\* dispatcher
C23_Witness ==
    /\ pc = "ret" /\ trace.op \in EdgeOps /\ trace.ended > 0
    /\ callstack = <<>> /\ outlines = 0 /\ o_valid = FALSE
    /\ move_resize = "End"
    /\ attrib[Target].x # 0

\* C30: while the event loop of a session function is running the session
\* slot is not EndMoveResizeType, whichever binding has set it, and no second
\* session function is running.
C30_SlotHeldWhileLooping ==
    /\ (callstack # <<>> /\ pc = "fetch") => move_resize # "End"
    /\ Len(callstack) <= 1

\* the loop of a window session has handled an edge crossing bound to
\* EndMoveResize and waits for its next event
C30_Witness ==
    /\ trace.op = "DeliverCrossing"
    /\ callstack # <<>> /\ Top(Cur).kind \in WinActs /\ pc = "fetch"
    /\ move_resize = "End"

(***************************************************************************)
(* Teardown of a managed window by EvUnmapDestroy (Event.cc:548-562,       *)
(* Window.cc:185-265).                                                     *)
(***************************************************************************)
MaxTeardown == 3    \* stacking operations followed before and with a teardown

InitTeardown ==
    /\ \E ed \in {{}, {WestId, EastId}} :
       \E tl \in SubLists(TransientHistory) :
          InitLists(ed, tl)
    /\ InitGeometry({})
    /\ InitScreen(2, 2, 1, 1)
    /\ SessionIdle
    /\ trace = [op |-> "Init"]
    /\ steps = MaxTeardown

NextTeardown ==
    \/ \E w \in WinIds : AlwaysontopOn(w)
    \/ \E w \in WinIds : AlwaysatbottomOn(w)
    \/ \E w \in WinIds : RaiseWindow(w)
    \/ \E w \in WinIds : UnmapDestroy(w)

SpecTeardown == InitTeardown /\ [][NextTeardown]_vars

\* C24: when EvUnmapDestroy has handled the unmap or destroy event of a
\* managed window, the window is neither in the window registry nor in any
\* of the three stacking lists.
C24_TeardownComplete ==
    [][\A w \in WinIds :
          UnmapDestroy(w) =>
             /\ w \notin window_table'
             /\ ~InList(aot_stacking_list', w)
             /\ ~InList(stacking_list', w)
             /\ ~InList(aab_stacking_list', w)]_vars

\* a window that a raise of its owner had carried into the always-on-top
\* list has been torn down
C24_Witness ==
    /\ trace.op = "UnmapDestroy" /\ steps = 0
    /\ 2 \notin window_table
    /\ InList(aot_stacking_list, 1)
    /\ ~flags[2].alwaysontop
    /\ transient_for[2] = 1

(***************************************************************************)
(* Windows as records: maximize, shade and the work-area (Window.cc,       *)
(* Screen.cc).  A window is [attrib, size, d, shaded, restore_shade, max,  *)
(* restore_max, on]: its geometry, its normalised size hints, its          *)
(* decorations, flags.shaded, flags.max with what they restore, and        *)
(* whether desktop_mask holds the current desktop.                         *)
(***************************************************************************)
MaxWinOps == 3      \* operations on windows and struts in one behaviour

\* a client that sets no WM_NORMAL_HINTS, and one that sets a minimum size
\* and a resize increment
NoHints == [flags |-> {}, min |-> 0, max |-> 0, inc |-> 0, base |-> 0]
WorkHints == {NoHints,
              [flags |-> {"PMinSize", "PResizeInc"}, min |-> 50, max |-> 0,
               inc |-> 10, base |-> 0]}

\* title bar and border without a handle, and with one
WorkDecors == {[title_w |-> 20, handle_w |-> 0, border_w |-> 2],
               [title_w |-> 20, handle_w |-> 6, border_w |-> 2]}

\* the size of the screen
WorkScreen == [x |-> 0, y |-> 0, width |-> 800, height |-> 600]

\* _NET_WM_STRUT of a panel at the top and of one at the left; live tells
\* whether the owner is found and is on the current desktop
Struts == {[left |-> 0, right |-> 0, top |-> 30, bottom |-> 0, live |-> TRUE],
           [left |-> 40, right |-> 0, top |-> 0, bottom |-> 0, live |-> TRUE],
           [left |-> 0, right |-> 0, top |-> 0, bottom |-> 50, live |-> FALSE]}

\* a window as WaWindow::WaWindow and InitPosition leave it
WinRec(h, d, a, on) ==
    [attrib |-> a, size |-> GetWMNormalHints(h, d), d |-> d,
     shaded |-> FALSE, restore_shade |-> a.height, max |-> FALSE,
     restore_max |-> [x |-> a.x, y |-> a.y, width |-> a.width,
                      height |-> a.height, misc0 |-> 0, misc1 |-> 0],
     on |-> on]

\* what IncSizeCheck does to flags.shaded and restore_shade
Checked(w, c) ==
    [w EXCEPT !.shaded = c.sh,
              !.restore_shade = IF c.sh /\ ~w.shaded THEN w.attrib.height ELSE @]

\* WaWindow::RedrawWindow of w, whose geometry was o when it was last drawn:
\* a maximized window that is moved records the virtual position of its
\* frame, and one that is resized stops being maximized unless it is
\* shaded (old_attrib.width already equals attrib.width when the flag is
\* tested, so the width plays no part)
RedrawWindow(w, o, vx, vy) ==
    LET a == w.attrib
        move == o.x # a.x \/ o.y # a.y
        resize == o.width # a.width \/ o.height # a.height
        fx == a.x - w.d.border_w
        fy == a.y - w.d.border_w
                - (IF w.d.title_w # 0 THEN w.d.title_w + w.d.border_w ELSE 0)
        w1 == IF move /\ w.max
              THEN [w EXCEPT !.restore_max.misc0 = vx + fx,
                             !.restore_max.misc1 = vy + fy]
              ELSE w
    IN  IF resize /\ w1.max /\ ~w1.shaded
        THEN [w1 EXCEPT !.max = FALSE]
        ELSE w1

\* the size without the border between title bar and client
NewSizeNoTitleBorder(d, wk) ==
    [width |-> wk.width - d.border_w * 2,
     height |-> wk.height - d.border_w * 2 - d.title_w - d.handle_w
                  - (IF d.handle_w # 0 THEN d.border_w ELSE 0)]

\* new_width and new_height of _Maximize: the work-area less the decorations
NewSize(d, wk) ==
    [width |-> wk.width - d.border_w * 2,
     height |-> wk.height - d.border_w * 2 - d.title_w - d.handle_w
                  - (IF d.title_w # 0 THEN d.border_w ELSE 0)
                  - (IF d.handle_w # 0 THEN d.border_w ELSE 0)]

\* WaWindow::_Maximize(x, y) on the work-area wk with the viewport at (vx, vy)
WinMaximize(w, wk, vx, vy, x, y) ==
    IF w.max THEN w
    ELSE LET a == w.attrib
             d == w.d
             new == NewSize(d, wk)
             w1 == [w EXCEPT !.restore_max.width = a.width,
                             !.restore_max.height =
                                 IF w.shaded THEN w.restore_shade ELSE a.height,
                             !.restore_shade =
                                 IF w.shaded THEN new.height ELSE @]
             c == SizeCheck(w.size, d, a, w.shaded, new.width,
                            IF w.shaded THEN a.height ELSE new.height)
             w2 == Checked(w1, c)
             given == x >= 0 /\ y >= 0
             ax == IF given THEN x - vx ELSE wk.x
             ay == IF given THEN y - vy ELSE wk.y
         IN  IF ~c.resize THEN w2
             ELSE [RedrawWindow(
                     [w2 EXCEPT !.attrib =
                                   [x |-> ax + d.border_w,
                                    y |-> ay + d.title_w + d.border_w
                                            + (IF d.title_w # 0 THEN d.border_w
                                               ELSE 0),
                                    width |-> c.n_w, height |-> c.n_h],
                                !.restore_max.x = a.x - wk.x,
                                !.restore_max.y = a.y - wk.y,
                                !.restore_max.misc0 =
                                    IF given THEN x ELSE vx + wk.x,
                                !.restore_max.misc1 =
                                    IF given THEN y ELSE vy + wk.y],
                     a, vx, vy)
                   EXCEPT !.max = TRUE]

\* WaWindow::UnMaximize
WinUnMaximize(w, vx, vy) ==
    IF ~w.max THEN w
    ELSE LET a == w.attrib
             rm == w.restore_max
             tmp_shade_height == IF w.shaded THEN rm.height ELSE 0
             c == SizeCheck(w.size, w.d, a, w.shaded, rm.width,
                            IF w.shaded THEN a.height ELSE rm.height)
             w1 == Checked(w, c)
         IN  IF ~c.resize THEN w1
             ELSE LET w2 == RedrawWindow(
                               [w1 EXCEPT !.attrib =
                                             [x |-> rm.x + (rm.misc0 - vx),
                                              y |-> rm.y + (rm.misc1 - vy),
                                              width |-> c.n_w,
                                              height |-> c.n_h],
                                          !.max = FALSE],
                               a, vx, vy)
                  IN  [w2 EXCEPT !.restore_shade =
                                    IF w2.shaded THEN tmp_shade_height ELSE @]

\* WaWindow::Shade
WinShade(w, vx, vy) ==
    LET c == SizeCheck(w.size, w.d, w.attrib, w.shaded, w.attrib.width,
                       -(w.d.handle_w + w.d.border_w * 2))
        w1 == Checked(w, c)
    IN  IF c.resize
        THEN RedrawWindow([w1 EXCEPT !.attrib.width = c.n_w,
                                     !.attrib.height = c.n_h],
                          w.attrib, vx, vy)
        ELSE w1

\* WaWindow::UnShade: the window is redrawn before flags.shaded is cleared
WinUnShade(w, vx, vy) ==
    IF w.shaded
    THEN [RedrawWindow([w EXCEPT !.attrib.height = w.restore_shade],
                       w.attrib, vx, vy)
            EXCEPT !.shaded = FALSE]
    ELSE w

\* the strut loop of UpdateWorkarea from position i, wk holding x, y and the
\* right and bottom limits found so far
RECURSIVE StrutLoop(_, _, _)
StrutLoop(sl, i, wk) ==
    IF i > Len(sl) THEN wk
    ELSE IF ~sl[i].live THEN StrutLoop(sl, i + 1, wk)
    ELSE StrutLoop(sl, i + 1,
           [x |-> IF sl[i].left > wk.x THEN sl[i].left ELSE wk.x,
            y |-> IF sl[i].top > wk.y THEN sl[i].top ELSE wk.y,
            width |-> IF WorkScreen.width - sl[i].right < wk.width
                      THEN WorkScreen.width - sl[i].right ELSE wk.width,
            height |-> IF WorkScreen.height - sl[i].bottom < wk.height
                       THEN WorkScreen.height - sl[i].bottom ELSE wk.height])

\* the work-area UpdateWorkarea computes from the struts
NewWorkarea(sl) ==
    LET wk == StrutLoop(sl, 1, WorkScreen)
    IN  [wk EXCEPT !.width = @ - wk.x, !.height = @ - wk.y]

\* the window loop of UpdateWorkarea from position i: it stops at the first
\* window that is not on the current desktop
RECURSIVE Remaximize(_, _, _, _, _)
Remaximize(wl, i, wk, vx, vy) ==
    IF i > Len(wl) THEN wl
    ELSE IF ~wl[i].on THEN wl
    ELSE IF ~wl[i].max THEN Remaximize(wl, i + 1, wk, vx, vy)
    ELSE LET w == wl[i]
             rm == w.restore_max
             m == WinMaximize([w EXCEPT !.max = FALSE], wk, vx, vy,
                              rm.misc0, rm.misc1)
             r == [m EXCEPT !.restore_max.x = rm.x, !.restore_max.y = rm.y,
                            !.restore_max.width = rm.width,
                            !.restore_max.height = rm.height]
         IN  Remaximize([wl EXCEPT ![i] = r], i + 1, wk, vx, vy)

\* WaScreen::UpdateWorkarea with the strut list sl
UpdateWorkarea(sl) ==
    /\ strut_list' = sl
    /\ \E wk \in {NewWorkarea(sl)} :
         /\ desk_workarea' = wk
         /\ wawindow_list' = IF wk = desk_workarea THEN wawindow_list
                             ELSE Remaximize(wawindow_list, 1, wk, v_x, v_y)

WorkRest ==
    /\ Step
    /\ UNCHANGED <<stackvars, viewvars, modalvars, arg, res, clickvars, maxvars,
                   deskvars>>

\* a panel sets its strut
StrutAdd(s) ==
    /\ Len(strut_list) < 2
    /\ UpdateWorkarea(Append(strut_list, s))
    /\ trace' = [op |-> "UpdateWorkarea"]
    /\ WorkRest

\* the strut set first is withdrawn
StrutRemove ==
    /\ strut_list # <<>>
    /\ UpdateWorkarea(Tail(strut_list))
    /\ trace' = [op |-> "UpdateWorkarea"]
    /\ WorkRest

\* one operation on window i
WinOp(op, i, r) ==
    /\ wawindow_list' = [wawindow_list EXCEPT ![i] = r]
    /\ trace' = [op |-> op, i |-> i, before |-> wawindow_list[i],
                 wk |-> desk_workarea,
                 pre |-> IF trace.op = "Shade" /\ trace.i = i
                         THEN trace.before ELSE wawindow_list[i],
                 prevop |-> IF trace.op # "Init" /\ trace.op # "UpdateWorkarea"
                               /\ trace.i = i
                            THEN trace.op ELSE "none"]
    /\ UNCHANGED <<strut_list, desk_workarea>>
    /\ WorkRest

\* WaWindow::Maximize: _Maximize(-1, -1)
WMaximize(i) ==
    WinOp("Maximize", i,
          WinMaximize(wawindow_list[i], desk_workarea, v_x, v_y, -1, -1))

WUnMaximize(i) ==
    WinOp("UnMaximize", i, WinUnMaximize(wawindow_list[i], v_x, v_y))

WShade(i) == WinOp("Shade", i, WinShade(wawindow_list[i], v_x, v_y))

WUnShade(i) == WinOp("UnShade", i, WinUnShade(wawindow_list[i], v_x, v_y))

InitWork ==
    /\ InitLists({}, <<>>)
    /\ InitGeometry({})
    /\ InitScreen(WorkScreen.width, WorkScreen.height, 1, 1)
    /\ ModalIdle /\ arg = NoRes /\ res = NoRes
    /\ ClickIdle /\ MaxIdle /\ DeskIdle
    /\ \E h1, h2 \in WorkHints, d1, d2 \in WorkDecors, on1 \in BOOLEAN :
         wawindow_list =
            <<WinRec(h1, d1, [x |-> 10, y |-> 40, width |-> 100, height |-> 60],
                     on1),
              WinRec(h2, d2, [x |-> 200, y |-> 100, width |-> 60, height |-> 60],
                     TRUE)>>
    /\ strut_list = <<>>
    /\ desk_workarea = WorkScreen
    /\ trace = [op |-> "Init"]
    /\ steps = MaxWinOps

NextWork ==
    \/ \E s \in Struts : StrutAdd(s)
    \/ StrutRemove
    \/ \E i \in 1..2 : WMaximize(i)
    \/ \E i \in 1..2 : WUnMaximize(i)
    \/ \E i \in 1..2 : WShade(i)
    \/ \E i \in 1..2 : WUnShade(i)

SpecWork == InitWork /\ [][NextWork]_vars

\* the scenario of a maximize: border 2, title bar 20, no handle
ScenarioDecor == [title_w |-> 20, handle_w |-> 0, border_w |-> 2]

\* the last step maximized a window of the scenario that was neither
\* maximized nor shaded, on a work-area of (0, 0, 800, 600)
ScenarioMaximize ==
    /\ trace.op = "Maximize"
    /\ ~trace.before.max /\ ~trace.before.shaded
    /\ trace.before.d = ScenarioDecor
    /\ trace.wk = WorkScreen

\* the geometry the scenario expects, and the maximized flag
ScenarioApplied ==
    /\ wawindow_list[trace.i].attrib
          = [x |-> 2, y |-> 24, width |-> 796, height |-> 574]
    /\ wawindow_list[trace.i].max

C26_ShadeRoundTrip ==
    (trace.op = "UnShade" /\ trace.prevop = "Shade" /\ ~trace.pre.shaded)
    => /\ wawindow_list[trace.i].attrib = trace.pre.attrib
       /\ wawindow_list[trace.i].max = trace.pre.max

C26_Witness ==
    /\ trace.op = "UnShade" /\ trace.prevop = "Shade" /\ ~trace.pre.shaded
    /\ trace.before.shaded
    /\ ~wawindow_list[trace.i].shaded
    /\ wawindow_list[trace.i].attrib.height = trace.pre.attrib.height
    /\ wawindow_list[trace.i].attrib.width # trace.pre.attrib.width

\* what maximizing w afresh on the work-area wk applies
Filling(w, wk, vx, vy) ==
    WinMaximize([w EXCEPT !.max = FALSE], wk, vx, vy, -1, -1).attrib

\* the pre-maximize geometry a window has saved
Saved(w) ==
    <<w.restore_max.x, w.restore_max.y, w.restore_max.width,
      w.restore_max.height>>

\* C25: whenever UpdateWorkarea changes the work-area of the current
\* desktop, every maximized window of the current desktop has afterwards the
\* geometry that fills the new work-area, is still flagged maximized and has
\* the saved pre-maximize geometry it had before.
C25_Remaximized ==
    [][(trace'.op = "UpdateWorkarea" /\ desk_workarea' # desk_workarea)
        => \A i \in 1..Len(wawindow_list) :
              (wawindow_list[i].max /\ wawindow_list[i].on)
              => /\ wawindow_list'[i].max
                 /\ Saved(wawindow_list'[i]) = Saved(wawindow_list[i])
                 /\ wawindow_list'[i].attrib
                       = Filling(wawindow_list[i], desk_workarea', v_x, v_y)]_vars

C25_Witness ==
    /\ trace.op = "UpdateWorkarea"
    /\ desk_workarea # WorkScreen
    /\ ~wawindow_list[1].on
    /\ wawindow_list[2].on /\ wawindow_list[2].max
    /\ wawindow_list[2].attrib.height
          = NewSize(wawindow_list[2].d, WorkScreen).height

(***************************************************************************)
(* The viewport scenario: an 800x600 screen with a virtual area of 3x1     *)
(* screens, window 1 at (100, 100).                                        *)
(***************************************************************************)
\* the offsets the scenario's requests name
ScenarioReqsX == {0, 900, 1600, 2000}
ScenarioReqsY == {0, 300}
\* the offsets of the relative moves
ScenarioOffsets == {0 - 300, 300}

InitScenario ==
    /\ InitLists({}, <<>>)
    /\ attrib = [w \in WinIds |->
                   [x |-> 100 + 700 * (w - 1), y |-> 100, width |-> 200,
                    height |-> 150]]
    /\ dontsend = [w \in WinIds |-> FALSE]
    /\ \E k \in 1..NumWin :
          flags = [w \in WinIds |-> [NoFlags EXCEPT !.sticky = w \in 2..k]]
    /\ InitScreen(800, 600, 3, 1)
    /\ SessionIdle
    /\ trace = [op |-> "Init"]
    /\ steps = 0

NextScenario ==
    \/ \E x \in ScenarioReqsX, y \in ScenarioReqsY : MoveViewportTo(x, y)
    \/ \E d \in {"West", "East", "North", "South"} : MoveViewport(d)
    \/ \E x \in ScenarioOffsets, y \in ScenarioReqsY : ViewportRelativeMove(x, y)

SpecScenario == InitScenario /\ [][NextScenario]_vars

\* the scenario's starting state and request: viewport at (0, 0), window 1
\* not sticky at (100, 100), MoveViewportTo(900, 0)
ScenarioMove ==
    /\ v_x = 0 /\ v_y = 0
    /\ width = 800 /\ height = 600 /\ v_xmax = 1600 /\ v_ymax = 0
    /\ ~flags[1].sticky
    /\ attrib[1].x = 100 /\ attrib[1].y = 100
    /\ trace'.op = "MoveViewportTo" /\ trace'.x = 900 /\ trace'.y = 0

\* C27 as stated: on an 800x600 screen with a 3x1 virtual area, from the
\* viewport (0, 0) with the non-sticky window at (100, 100),
\* MoveViewportTo(900, 0) sets the viewport to (900, 0) and the window's
\* recorded position becomes (-700, 100).
C27_ScenarioAsStated ==
    [][ScenarioMove
        => /\ v_x' = 900 /\ v_y' = 0
           /\ attrib'[1].x = 0 - 700 /\ attrib'[1].y = 100]_vars

\* C27: on an 800x600 screen with a 3x1 virtual area, from the viewport
\* (0, 0) with the non-sticky window at (100, 100), MoveViewportTo(900, 0)
\* sets the viewport to (900, 0) and the window's recorded position becomes
\* (100 - 900, 100) = (-800, 100).
C27_Scenario ==
    [][ScenarioMove
        => /\ v_x' = 900 /\ v_y' = 0
           /\ attrib'[1].x = 0 - 800 /\ attrib'[1].y = 100]_vars

C27_Witness ==
    /\ trace.op = "MoveViewportTo" /\ trace.x = 900 /\ trace.y = 0
    /\ v_x = 900 /\ v_y = 0 /\ v_xmax = 1600
    /\ ~flags[1].sticky
    /\ attrib[1].x = 0 - 800 /\ attrib[1].y = 100

(***************************************************************************)
(* RestackWindows(0) on its own (Screen.cc:188, 583-619).                  *)
(***************************************************************************)
\* WaScreen::RestackWindows(0): trace keeps the array handed to
\* XRestackWindows, and the one of the call before when that was the
\* preceding step
Restack ==
    /\ Step
    /\ \E stack \in {RestackArray(edges, aot_stacking_list, stacking_list,
                                  aab_stacking_list, NoWin)} :
          trace' = [op |-> "RestackWindows", stack |-> stack,
                    again |-> trace.op = "RestackWindows",
                    before |-> IF trace.op = "RestackWindows"
                               THEN trace.stack ELSE <<>>]
    /\ \E g \in Garbage(CurLayers, NoWin) :
          xstack' = RestackWindows(xstack, edges, aot_stacking_list,
                                   stacking_list, aab_stacking_list, NoWin, g)
    /\ UNCHANGED <<window_table, transients, transient_for, flags, edges,
                   aot_stacking_list, stacking_list, aab_stacking_list>>
    /\ UNCHANGED <<viewvars, sessvars>>

NextIdem ==
    \/ \E w \in WinIds : AlwaysontopOn(w)
    \/ \E w \in WinIds : AlwaysatbottomOn(w)
    \/ \E w \in WinIds : UnmapDestroy(w)
    \/ Restack

SpecIdem == InitTeardown /\ [][NextIdem]_vars

Outside(xs, stack) == SelectSeq(xs, LAMBDA h : ~InList(stack, h))

\* C40: RestackWindows raises and restacks only handles of the array it has
\* computed, so the windows the array does not name keep their order on the
\* display; with no active screen edge and three empty lists the array is
\* empty and no window is raised.
C40_OnlyComputedHandles ==
    [][\A w \in WinIds :
          (RaiseWindow(w) \/ LowerWindow(w))
          => LET stack == RestackArray(edges, aot_stacking_list',
                                       stacking_list', aab_stacking_list', w)
             IN  Outside(xstack', stack) = Outside(xstack, stack)]_vars

\* a configure-request has been handled with no active edge and three empty
\* lists, and a window that was not topmost is topmost now
C40_Witness ==
    /\ trace.op \in {"RaiseWindow", "LowerWindow"}
    /\ edges = {}
    /\ aot_stacking_list = <<>> /\ stacking_list = <<>>
    /\ aab_stacking_list = <<>>
    /\ window_table = {NumWin}
    /\ xstack[1] # NumWin

(***************************************************************************)
(* The target of a session and client messages (Event.cc:108-116,          *)
(* 615-624).                                                               *)
(***************************************************************************)
\* a client asks for window w to be withdrawn and the ClientMessage is taken
DeliverWithdraw(w) ==
    /\ pc = "fetch" /\ xqueue = <<>> /\ w \in window_table
    /\ Take("DeliverWithdraw", WithdrawEv(w), <<>>, "ok")
    /\ UNCHANGED <<pointer, nmaps>>

\* the bindings of the button and key events
WithdrawLists == {<<>>, <<"EndMoveResize">>} \cup {<<a>> : a \in WinActs}

NextWithdraw ==
    \/ Fetch
    \/ \E x \in 0..MaxPtr : DeliverMotion(x)
    \/ \E acts \in WithdrawLists, rq \in Behind : DeliverButton(acts, rq)
    \/ \E t \in {"DestroyNotify", "UnmapNotify"}, w \in {Target, Target + 1} :
         DeliverGone(t, w)
    \/ \E w \in {Target, Target + 1} : DeliverWithdraw(w)
    \/ Resume

SpecWithdraw == InitSession /\ [][NextWithdraw]_vars

\* a session function of the target waits in its event loop and the slot
\* names its operation
SessionActive ==
    /\ callstack # <<>> /\ pc = "fetch"
    /\ callstack[Len(callstack)].kind \in WinActs
    /\ move_resize # "End"

\* C31: while a move or resize session is active its target is a managed
\* window of the registry: nothing handled inside the nested event loop
\* deletes the target's object without ending the session.
C31_TargetLive == SessionActive => Target \in window_table

\* the target has been withdrawn by a client message while its session
\* waited in the event loop, and the session waits on
C31_Witness ==
    /\ trace.op = "DeliverWithdraw"
    /\ SessionActive
    /\ Target \notin window_table
    /\ ~deleted

(***************************************************************************)
(* The server grab of the session functions (Window.cc:1319-1339).         *)
(***************************************************************************)
\* C32: when Move, MoveOpaque, Resize or ResizeOpaque has returned or waits
\* in its event loop, the server grab taken at its entry has been released,
\* also when the pointer grab or the keyboard grab was refused.
C32_ServerGrabReleased == trace.op \in SessionOps => ~srv_grab

\* a session function has returned after a refused grab and the server is
\* still grabbed
C32_Witness ==
    /\ trace.op = "DeliverButton" /\ trace.gfail
    /\ move_resize = "End" /\ callstack = <<>>
    /\ srv_grab

(***************************************************************************)
(* Map-requests during a viewport drag (Screen.cc:1255-1353).              *)
(***************************************************************************)
DragLists == {<<"ViewportMove">>, <<"EndMoveResize">>}

NextDrag ==
    \/ Fetch
    \/ \E x \in 0..MaxPtr : DeliverMotion(x)
    \/ \E acts \in DragLists : DeliverButton(acts, <<>>)
    \/ DeliverMap(<<>>, <<>>)
    \/ Resume

SpecDrag == InitReplay /\ [][NextDrag]_vars

\* the loop of ViewportMove is the innermost one
Dragging ==
    callstack # <<>> /\ callstack[Len(callstack)].kind = "ViewportMove"

\* C33: a map-request that arrives during a ViewportMove drag is not handled
\* then, and when the drag ends the queue starts with the deferred
\* map-requests, each once and in the order they arrived in (the order of
\* their numbers).
C33_DragReplay ==
    [][Dragging
        => /\ handled' = handled
           /\ Len(callstack') < Len(callstack)
              => LET k == Len(callstack[Len(callstack)].maps)
                 IN  /\ Len(xqueue') >= k
                     /\ \A i \in 1..k : xqueue'[i].type = "MapRequest"
                     /\ \A i, j \in 1..k : i < j => xqueue'[i].n < xqueue'[j].n]_vars

\* a drag in which two map-requests were deferred has ended
C33_Witness ==
    /\ trace.op = "DeliverButton" /\ trace.ended = 1
    /\ callstack = <<>> /\ move_resize = "End"
    /\ nmaps = 2 /\ handled = <<>>
    /\ Len(xqueue) = 2

(***************************************************************************)
(* Raising an owner whose transient list also names stale handles, checked *)
(* under SpecStack.                                                        *)
(***************************************************************************)
\* C34: the Raise action on an owner window that is neither forced to the
\* bottom nor held in a fixed layer leaves every live transient of the owner
\* ahead of the owner in the normal list, also when the owner's transient
\* list names stale handles that the same call prunes.
C34_NoLiveTransientSkipped ==
    [][\A h \in WinIds :
          (Raise(h) /\ ~flags[h].forcedatbottom
                    /\ ~flags[h].alwaysontop /\ ~flags[h].alwaysatbottom) =>
              \A i \in 1..Len(transients[h]) :
                  FindWin(window_table, transients[h][i]) =>
                      Ahead(stacking_list', transients[h][i], h)]_vars

\* window 1, whose transient list was a stale handle followed by the live
\* transients 2 and 3, has been raised: the stale handle is pruned, 3 is in
\* front of the owner and 2 is not
C34_Witness ==
    /\ trace.op = "Raise" /\ steps = MaxSteps - 1
    /\ window_table = WinIds
    /\ transients[1] = <<2, 3>>
    /\ Ahead(stacking_list, 3, 1) /\ Ahead(stacking_list, 1, 2)

(***************************************************************************)
(* Desktop membership, checked under SpecDesk.                             *)
(***************************************************************************)
\* C35: every managed window is a member of at least one desktop: after any
\* sequence of desktop actions and desktop client messages no managed
\* window's desktop mask is zero.
C35_MaskNeverZero ==
    \A w \in window_table : desktop_mask[w] # {}

\* the desktop-mask client message has left a managed window a member of no
\* desktop, hidden on the current one
C35_Witness ==
    /\ trace.op = "desktop_mask"
    /\ \E w \in window_table : desktop_mask[w] = {} /\ hidden[w] /\ mapped[w]

(***************************************************************************)
(* A maximize request that the size check rejects.                         *)
(***************************************************************************)

\* a client of fixed largest size, and one that resizes in steps of 10
RejectHints == {[flags |-> {"PMaxSize"}, min |-> 0, max |-> 400, inc |-> 0,
                 base |-> 0],
                [flags |-> {"PMinSize", "PResizeInc"}, min |-> 50, max |-> 0,
                 inc |-> 10, base |-> 0]}

\* the sizes the two windows start with: a small one, and one a step short
\* of the work-area
RejectSizes == {[width |-> 100, height |-> 60], [width |-> 791, height |-> 571]}

InitReject ==
    /\ InitLists({}, <<>>)
    /\ InitGeometry({})
    /\ InitScreen(WorkScreen.width, WorkScreen.height, 1, 1)
    /\ ModalIdle /\ arg = NoRes /\ res = NoRes
    /\ ClickIdle /\ MaxIdle /\ DeskIdle
    /\ \E h1, h2 \in RejectHints, d1 \in WorkDecors, s1 \in RejectSizes :
         wawindow_list =
            <<WinRec(h1, d1, [x |-> 10, y |-> 40, width |-> s1.width,
                              height |-> s1.height], TRUE),
              WinRec(h2, d1, [x |-> 200, y |-> 100, width |-> 60,
                              height |-> 60], TRUE)>>
    /\ strut_list = <<>>
    /\ desk_workarea = WorkScreen
    /\ trace = [op |-> "Init"]
    /\ steps = MaxWinOps

NextReject ==
    \/ \E i \in 1..2 : WMaximize(i)
    \/ \E i \in 1..2 : WUnMaximize(i)
    \/ \E i \in 1..2 : WShade(i)
    \/ \E i \in 1..2 : WUnShade(i)

SpecReject == InitReject /\ [][NextReject]_vars

\* C36: a Maximize of a window that is not maximized and that the size
\* check rejects (the window is not maximized afterwards either) leaves
\* the window's record as it was: geometry, flags, the saved pre-maximize
\* geometry and the saved pre-shade height.
C36_RejectedMaximizeInert ==
    [][\A i \in 1..2 :
          (WMaximize(i) /\ ~wawindow_list[i].max /\ ~wawindow_list'[i].max) =>
              wawindow_list'[i] = wawindow_list[i]]_vars

\* a rejected Maximize of a shaded window has replaced the saved pre-shade
\* height
C36_Witness ==
    /\ trace.op = "Maximize"
    /\ ~trace.before.max /\ trace.before.shaded
    /\ ~wawindow_list[trace.i].max
    /\ wawindow_list[trace.i].attrib = trace.before.attrib
    /\ wawindow_list[trace.i].restore_shade # trace.before.restore_shade

(***************************************************************************)
(* The loop of WaWindow::Resize on its own: the pointer is dragged in two  *)
(* dimensions, each candidate size goes through IncSizeCheck, and an       *)
(* end-interaction binding applies the result.  arg holds the window, res  *)
(* the local variables of the function (how = EastType).                   *)
(***************************************************************************)
MaxDrag == 3            \* events taken by the loop in one behaviour

\* the hints of the dragged window, and the root positions of the pointer
DragHints == {h \in SizeHints : h.base = 50}
PtrRoots == {0, 7, 30}

InitOutline ==
    /\ Quiet /\ ModalIdle /\ ClickIdle /\ MaxIdle /\ DeskIdle /\ WorkIdle
    /\ steps = MaxDrag
    /\ arg \in [hints : DragHints, d : Decors,
                a : [width : {60}, height : {60}]]
    /\ res = [done |-> FALSE, started |-> FALSE, sh |-> FALSE, px |-> 0,
              py |-> 0, width |-> 60, height |-> 60, n_w |-> 60, n_h |-> 60,
              o_w |-> 60, o_h |-> 60]

\* the MotionNotify branch: the candidate is checked, and an accepted one
\* is drawn as the outline
ResizeMotionNotify(x, y) ==
    /\ Step
    /\ ~res.done /\ <<x, y>> # <<res.px, res.py>>
    /\ \E wd \in {res.width + (x - res.px)}, ht \in {res.height + (y - res.py)} :
       \E c \in {SizeCheck(GetWMNormalHints(arg.hints, arg.d), arg.d, arg.a,
                           res.sh, wd, ht)} :
          res' = [res EXCEPT !.width = wd, !.height = ht, !.px = x, !.py = y,
                             !.n_w = c.n_w, !.n_h = c.n_h, !.sh = c.sh,
                             !.started = @ \/ c.resize,
                             !.o_w = IF c.resize THEN c.n_w ELSE @,
                             !.o_h = IF c.resize THEN c.n_h ELSE @]
    /\ trace' = [op |-> "MotionNotify"]
    /\ UNCHANGED <<stackvars, viewvars, modalvars, arg, clickvars, maxvars,
                   deskvars, workvars>>

\* the ButtonPress / ButtonRelease / key branch with a binding that ends
\* the interaction: n_w and n_h become the size of the window
ResizeEndMoveResize ==
    /\ Step
    /\ ~res.done
    /\ res' = [res EXCEPT !.done = TRUE]
    /\ arg' = [arg EXCEPT !.a = [width |-> res.n_w, height |-> res.n_h]]
    /\ trace' = [op |-> "EndMoveResize"]
    /\ UNCHANGED <<stackvars, viewvars, modalvars, clickvars, maxvars,
                   deskvars, workvars>>

NextOutline ==
    \/ \E x, y \in PtrRoots : ResizeMotionNotify(x, y)
    \/ ResizeEndMoveResize

SpecOutline == InitOutline /\ [][NextOutline]_vars

\* C37: when an outline Resize session that has drawn an outline is ended
\* by an end-interaction binding, the size given to the window is the size
\* of the last outline drawn, also when later candidates were rejected.
C37_AppliedIsLastOutline ==
    [][(ResizeEndMoveResize /\ res.started) =>
          (arg'.a.width = res.o_w /\ arg'.a.height = res.o_h)]_vars

\* the session has ended after an outline of 90x90 was drawn and a later
\* candidate was rejected: the window has the size it started with
C37_Witness ==
    /\ trace.op = "EndMoveResize" /\ res.done /\ res.started
    /\ res.o_w = 90 /\ res.o_h = 90
    /\ arg.a = [width |-> 60, height |-> 60]

(***************************************************************************)
(* The sizes IncSizeCheck returns against the configured bounds, checked   *)
(* under SpecSize.                                                         *)
(***************************************************************************)
\* C38: when IncSizeCheck accepts an ordinary resize (the window is not
\* shaded by the call), a width it has taken from the request lies between
\* min_width and max_width, and a height it has taken lies between
\* min_height and max_height.
C38_ReturnedWithinBounds ==
    (res.done /\ ~res.again /\ res.first.resize /\ ~res.first.sh) =>
       /\ res.first.wok =>
            (res.size.min_width <= res.first.n_w
               /\ res.first.n_w <= res.size.max_width)
       /\ res.first.hok =>
            (res.size.min_height <= res.first.n_h
               /\ res.first.n_h <= res.size.max_height)

\* a requested width inside the bounds has been taken and has come back
\* under min_width
C38_Witness ==
    /\ res.done /\ ~res.again /\ res.first.resize /\ ~res.first.sh
    /\ res.first.wok
    /\ arg.wd >= res.size.min_width /\ arg.wd <= res.size.max_width
    /\ res.first.n_w < res.size.min_width

(***************************************************************************)
(* The outline windows of Move and Resize, checked under SpecSession.      *)
(***************************************************************************)
\* C39: in Move and Resize sessions DrawOutline is called only while the
\* outline windows exist: never before CreateOutline has run in the session
\* and never after DestroyOutline.
C39_DrawOnlyWhileOutlined ==
    trace.op \in SessionOps => ~trace.stray

\* a Move session that no pointer motion had started has taken a button
\* event: the outline has been drawn although no outline window was created
C39_Witness ==
    /\ trace.op = "DeliverButton" /\ trace.stray
    /\ outlines = 0 /\ ~o_valid
    /\ callstack # <<>> /\ callstack[Len(callstack)].kind = "Move"
    /\ ~callstack[Len(callstack)].started

====
